---- MODULE Spec2Model ----
(***************************************************************************)
(* Model of the health-score service: the Lookup Table loaded by           *)
(* HealthScoreService.__init__, the Answer Extractor, the Scorer, the       *)
(* process_json pipeline (score -> chart -> PDF) of JsonProcessingService   *)
(* and HealthScoreOrchestrationService, the entry points of the webhook,    *)
(* file and report controllers with the e-mail service, and the chart       *)
(* renderer run by concurrent requests over pyplot's current figure.        *)
(*                                                                         *)
(* Encoding of Python values.  A value is a record tagged by its Python     *)
(* type: None, str (a tuple of one-character strings, so that lower() and   *)
(* the substring test `in` are computed), int, list and dict (a function    *)
(* from key names to values).  Question identifiers and the type tag of an  *)
(* answer are only ever compared for equality and are TLA+ strings.         *)
(* Scores are fixed-point numbers in tenths: the sub-score 4.0 is 40 and    *)
(* the normalized score 80.0 is 800.  The path of an artifact is the record *)
(* of what its name is built from: kind, timestamp and uuid4 token.         *)
(***************************************************************************)
EXTENDS Integers, Sequences, FiniteSets, TLC

VARIABLES
    lookups,        \* HealthScoreService._lookups
    pc,             \* position of the request in flight
    payload,        \* the input of the call in flight
    answers,        \* the Answer Map built by _extract_answers
    user_name,      \* the display name resolved by _extract_user_name
    pillar_scores,  \* what calculate produced: a PillarScores or an exception
    chart_path,     \* what generate_chart returned
    pdf_path,       \* what generate_pdf_report returned
    result,         \* the dictionary returned by process_json
    entry,          \* the public entry point the request in flight came through
    args,           \* the inputs of the entry point beside the payload
    calls,          \* the renderer and notifier invocations of the request in flight
    response,       \* what the entry point returned to the HTTP layer
    files,          \* the file store: path -> content
    tokens_issued,  \* how many values uuid.uuid4() has returned
    now,            \* datetime.utcnow(), in seconds
    served,         \* how many requests the entry points have answered
    api_key,        \* EmailService.api_key
    threads,        \* the requests running concurrently: their locals
    figs            \* pyplot's open figures, the current one last

\* the request in flight
request_vars == <<pc, payload, answers, user_name, pillar_scores, chart_path,
                  pdf_path, result, entry, args, calls, response>>

\* the process and its environment
store_vars == <<files, tokens_issued, now>>

\* the concurrent requests and pyplot
thread_vars == <<threads, figs>>

vars == <<lookups, request_vars, store_vars, served, api_key, thread_vars>>

----------------------------------------------------------------------------
(* Bounds of the model *)

\* longest key list of one question's mapping in the Lookup Table
MaxKeys == 2
\* longest answer list of a payload handed to process_json
MaxAnswers == 2
\* direct calls of process_json in one run
MaxDirectCalls == 1
\* requests the controllers answer in one run, and requests running concurrently
MaxRequests == 2
\* seconds the clock advances in one run
MaxTime == 1

----------------------------------------------------------------------------
(* Python values *)

None == [t |-> "None"]
Str(s) == [t |-> "str", s |-> s]
Num(n) == [t |-> "int", n |-> n]
List(xs) == [t |-> "list", items |-> xs]

\* a dict: the function from its keys to its values, and its keys in the order
\* of insertion, which is the order iteration and repr() follow
DictOf(keys, d) == [t |-> "dict", d |-> d, keys |-> keys]

\* the keys of a dict of the model's own payloads, whose order of insertion is
\* one fixed order
RECURSIVE KeysOf(_)
KeysOf(ks) ==
    IF ks = {} THEN << >>
    ELSE LET k == CHOOSE k \in ks : TRUE IN <<k>> \o KeysOf(ks \ {k})

Dict(d) == DictOf(KeysOf(DOMAIN d), d)

EmptyMap == [k \in {} |-> None]
EmptyStr == Str(<< >>)
EmptyDict == Dict(EmptyMap)

\* an exception propagating out of a call, and a normal return
Raise(e) == [exc |-> e]
Return(v) == [ret |-> v]
Raised(r) == "exc" \in DOMAIN r

\* dict.get(key, default) on the function behind a dict
Get(d, key, default) == IF key \in DOMAIN d THEN d[key] ELSE default

\* Mutant of Put: a key the dict holds keeps its value
PutIfAbsent(d, key, value) ==
    [k \in (DOMAIN d) \cup {key} |-> IF k \in DOMAIN d THEN d[k] ELSE value]

\* d[key] = value
Put(d, key, value) == [k \in (DOMAIN d) \cup {key} |-> IF k = key THEN value ELSE d[k]]

\* the characters of a str the model holds as one string: a key of a dict, a
\* type name, a field ref
Chars(k) == [i \in 1..Len(k) |-> SubSeq(k, i, i)]

\* the letters str.lower() changes, among the characters a string of the model
\* can hold (those of Latin-1), and, at the same positions, what it makes of them
UpperLetters == "ABCDEFGHIJKLMNOPQRSTUVWXYZÀÁÂÃÄÅÆÇÈÉÊËÌÍÎÏÐÑÒÓÔÕÖØÙÚÛÜÝÞ"
LowerLetters == "abcdefghijklmnopqrstuvwxyzàáâãäåæçèéêëìíîïðñòóôõöøùúûüýþ"

LowerOf ==
    [c \in {SubSeq(UpperLetters, i, i) : i \in 1..Len(UpperLetters)} |->
        LET i == CHOOSE i \in 1..Len(UpperLetters) : SubSeq(UpperLetters, i, i) = c
        IN  SubSeq(LowerLetters, i, i)]

\* str.lower() on one character
LowerChar(c) == IF c \in DOMAIN LowerOf THEN LowerOf[c] ELSE c

\* str.lower()
Lower(s) == [i \in 1..Len(s) |-> LowerChar(s[i])]

\* the concatenation of the strings of a list
RECURSIVE Flatten(_)
Flatten(parts) == IF parts = << >> THEN << >> ELSE Head(parts) \o Flatten(Tail(parts))

\* the substring test `needle in hay` on two str
Contains(needle, hay) ==
    \E i \in 0..(Len(hay) - Len(needle)) : SubSeq(hay, i + 1, i + Len(needle)) = needle

\* str(n) of an int
RECURSIVE DigitsOf(_)
DigitsOf(n) ==
    LET d == <<"0", "1", "2", "3", "4", "5", "6", "7", "8", "9">>
    IN  IF n < 10 THEN <<d[n + 1]>> ELSE Append(DigitsOf(n \div 10), d[(n % 10) + 1])

\* ", ".join(parts)
RECURSIVE Joined(_)
Joined(parts) ==
    IF parts = << >> THEN << >>
    ELSE IF Len(parts) = 1 THEN parts[1]
    ELSE parts[1] \o <<",", " ">> \o Joined(Tail(parts))

\* the characters of Latin-1 that repr() writes as \xNN, those str.isprintable()
\* refuses beside tab, newline and carriage return: runs of consecutive code
\* points, each from the code point `from` on
Unprintable ==
    <<[from |-> 1, chars |-> ""],
     [from |-> 11, chars |-> ""],
     [from |-> 14, chars |-> ""],
     [from |-> 127, chars |-> " "],
     [from |-> 173, chars |-> "­"]>>

\* one character of a str inside the quotes `q` of its repr
Escaped(c, q) ==
    IF c = "\\" THEN <<"\\", "\\">>
    ELSE IF c = q THEN <<"\\", q>>
    ELSE IF c = "\n" THEN <<"\\", "n">>
    ELSE IF c = "\t" THEN <<"\\", "t">>
    ELSE IF c = "\r" THEN <<"\\", "r">>
    ELSE LET at == {rn \in {<<r, i>> : r \in 1..Len(Unprintable), i \in 1..34} :
                       /\ rn[2] <= Len(Unprintable[rn[1]].chars)
                       /\ SubSeq(Unprintable[rn[1]].chars, rn[2], rn[2]) = c}
             hex == "0123456789abcdef"
         IN  IF at = {} THEN <<c>>
             ELSE LET rn == CHOOSE rn \in at : TRUE
                      code == Unprintable[rn[1]].from + rn[2] - 1
                  IN  <<"\\", "x", SubSeq(hex, (code \div 16) + 1, (code \div 16) + 1),
                        SubSeq(hex, (code % 16) + 1, (code % 16) + 1)>>

\* repr(s) of a str: in single quotes, or in double quotes when the text holds
\* a single quote and no double quote
ReprStr(s) ==
    LET q == IF (\E i \in 1..Len(s) : s[i] = "'") /\ ~(\E i \in 1..Len(s) : s[i] = "\"")
             THEN "\"" ELSE "'"
    IN  <<q>> \o Flatten([i \in 1..Len(s) |-> Escaped(s[i], q)]) \o <<q>>

\* the keys whose values the payloads hold as one string
TextKeys == {"type", "ref"}

\* repr(value): the text str() gives for a list or a dict is made of the repr of
\* its items
RECURSIVE Repr(_)
Repr(v) ==
    CASE v.t = "int" -> IF v.n < 0 THEN <<"-">> \o DigitsOf(-v.n) ELSE DigitsOf(v.n)
      [] v.t = "str" -> ReprStr(v.s)
      [] v.t = "None" -> <<"N", "o", "n", "e">>
      [] v.t = "list" ->
            <<"[">> \o Joined([i \in 1..Len(v.items) |-> Repr(v.items[i])]) \o <<"]">>
      [] v.t = "dict" ->
            LET ks == v.keys
            IN  <<"{">>
                \o Joined([i \in 1..Len(ks) |->
                              ReprStr(Chars(ks[i])) \o <<":", " ">>
                              \o (IF ks[i] \in TextKeys THEN ReprStr(Chars(v.d[ks[i]]))
                                  ELSE Repr(v.d[ks[i]]))])
                \o <<"}">>

\* str(value) for the values a 'number' field can hold
PyStr(v) == IF v.t = "str" THEN v ELSE Str(Repr(v))

\* round(num / den, 1) on values held in tenths, for a quotient the float
\* holds exactly: the nearest integer, the even neighbour on a tie.
\* _normalize_score (line 87) rounds raw_score * 20, whose tenths are whole
\* or halves because a pillar has at most two questions (a half is held
\* exactly); Overall uses it off the ties only.
RoundDiv(num, den) ==
    LET q == num \div den
        r == num % den
    IN  IF 2 * r < den THEN q
        ELSE IF 2 * r > den THEN q + 1
        ELSE IF q % 2 = 0 THEN q ELSE q + 1

----------------------------------------------------------------------------
(* HealthScoreService: the Pillar Definitions *)

Pillar1 == <<"aa24a4d2-b1f2-408b-9d4a-4be80ec7508d", "9c968d6d-e21b-448a-b8fb-30056f76ffff">>
Pillar2 == <<"27181fef-736e-4bee-ad31-7d8e983d61b3", "ceb0b561-1793-43f1-9c76-11cc3964e48a">>
Pillar3 == <<"ccc73a31-d4f8-4856-8ebb-27647ff39a97", "50b96cb1-243e-454b-aa01-0e8990fc507d">>
Pillar4 == <<"c714f3fd-a4ff-449b-9946-7badbdc59e03", "15045302-e327-4069-bc9d-d0c0ab3cfaaa">>
Pillar5 == <<"f9a247fc-e8d3-4bd8-b7e1-ae54f6766993">>
Pillar6 == <<"2c99731f-7ee5-4181-82b5-48a4d876df59">>

Pillars == <<Pillar1, Pillar2, Pillar3, Pillar4, Pillar5, Pillar6>>

Range(seq) == {seq[i] : i \in 1..Len(seq)}
AllUuids == UNION {Range(Pillars[p]) : p \in 1..6}

----------------------------------------------------------------------------
(* HealthScoreService._calculate_pillar_score *)

\* Mutant of HasKey: the exact-match stage never matches, every answer goes to
\* the fuzzy scan
HasKeyNever(mapping, answer) == FALSE

\* `answer in self._lookups[uuid]`: a dict membership test hashes the answer
Hashable(v) == v.t \notin {"list", "dict"}
HasKey(mapping, answer) ==
    answer.t = "str" /\ \E i \in 1..Len(mapping) : mapping[i].key = answer.s
ScoreOf(mapping, key) ==
    mapping[CHOOSE i \in 1..Len(mapping) : mapping[i].key = key].score

\* Mutant of BestMatch: an empty answer is not compared with the keys
RECURSIVE BestMatchOfText(_, _, _)
BestMatchOfText(mapping, answer, i) ==
    IF i > Len(mapping) THEN Return(None)
    ELSE IF answer.t # "str" THEN Raise("AttributeError")
    ELSE IF answer.s = << >> THEN Return(None)
    ELSE IF \/ Contains(Lower(answer.s), Lower(mapping[i].key))
            \/ Contains(Lower(mapping[i].key), Lower(answer.s))
         THEN Return(Str(mapping[i].key))
         ELSE BestMatchOfText(mapping, answer, i + 1)

\* the scan of lines 128-132 from key i on: the first key, in stored order, one of
\* whose lowercase forms contains the other; None when the keys are exhausted.
\* answer.lower() raises for an answer that is not a str.
RECURSIVE BestMatch(_, _, _)
BestMatch(mapping, answer, i) ==
    IF i > Len(mapping) THEN Return(None)
    ELSE IF answer.t # "str" THEN Raise("AttributeError")
    ELSE IF \/ Contains(Lower(answer.s), Lower(mapping[i].key))
            \/ Contains(Lower(mapping[i].key), Lower(answer.s))
         THEN Return(Str(mapping[i].key))
         ELSE BestMatch(mapping, answer, i + 1)

\* `if best_match:`, `if not recipient_email:`: the truth value of a value
Truthy(v) ==
    CASE v.t = "str" -> v.s # << >>
      [] v.t = "int" -> v.n # 0
      [] v.t = "list" -> v.items # << >>
      [] v.t = "dict" -> DOMAIN v.d # {}
      [] OTHER -> FALSE

\* One pass of the loop body, lines 120-137: the sub-scores appended for one
\* question (none or one), or the exception raised.
\* lines 133-137: the sub-score of the key the scan found, if it found one
MatchScore(mapping, best_match) ==
    IF Raised(best_match) THEN best_match
    ELSE IF Truthy(best_match.ret)
         THEN Return(<<ScoreOf(mapping, best_match.ret.s)>>)
         ELSE Return(<< >>)

Resolve(lk, ans, uuid) ==
    IF ~(uuid \in DOMAIN ans /\ uuid \in DOMAIN lk) THEN Return(<< >>)
    ELSE LET answer == ans[uuid]
             mapping == lk[uuid]
         IN  IF ~Hashable(answer) THEN Raise("TypeError")
             ELSE IF HasKey(mapping, answer) THEN Return(<<ScoreOf(mapping, answer.s)>>)
             ELSE MatchScore(mapping, BestMatch(mapping, answer, 1))

\* the list `scores` after the loop over the pillar's questions from index i on
\* what a loop has collected when one pass gave `one` and the passes after it
\* `rest`: the first exception ends the loop
Collected(one, rest) ==
    IF Raised(one) THEN one
    ELSE IF Raised(rest) THEN rest
    ELSE Return(one.ret \o rest.ret)

RECURSIVE PillarSubScores(_, _, _, _)
PillarSubScores(lk, ans, pillar_uuids, i) ==
    IF i > Len(pillar_uuids) THEN Return(<< >>)
    ELSE Collected(Resolve(lk, ans, pillar_uuids[i]),
                   PillarSubScores(lk, ans, pillar_uuids, i + 1))

RECURSIVE SumSeq(_)
SumSeq(s) == IF s = << >> THEN 0 ELSE Head(s) + SumSeq(Tail(s))

\* sum(scores) / len(scores) as the fraction num/den of tenths; 0 when no score
Mean(scores) ==
    IF scores = << >> THEN [num |-> 0, den |-> 1]
    ELSE [num |-> SumSeq(scores), den |-> Len(scores)]

\* Mutant of CalculatePillarScore: the sum is divided by the number of questions
\* of the pillar instead of the number of resolved sub-scores
CalculatePillarScoreOverQuestions(lk, ans, pillar_uuids) ==
    LET scores == PillarSubScores(lk, ans, pillar_uuids, 1)
    IN  IF Raised(scores) THEN scores
        ELSE Return([num |-> SumSeq(scores.ret), den |-> Len(pillar_uuids)])

\* lines 139-142 on the list the loop left
MeanOfScores(scores) == IF Raised(scores) THEN scores ELSE Return(Mean(scores.ret))

CalculatePillarScore(lk, ans, pillar_uuids) ==
    MeanOfScores(PillarSubScores(lk, ans, pillar_uuids, 1))

\* _normalize_score: round(raw_score * 20, 1), in tenths
NormalizeScore(raw_score) == RoundDiv(raw_score.num * 20, raw_score.den)

----------------------------------------------------------------------------
(* HealthScoreService._extract_answers *)

\* Mutant of AnswerValue: the number is stored as it is, without str()
AnswerValueRawNumber(answer) ==
    LET answer_type == Get(answer.d, "type", "")
    IN  CASE answer_type = "choice" ->
               LET choice == Get(answer.d, "choice", EmptyDict)
               IN  IF choice.t # "dict" THEN Raise("AttributeError")
                   ELSE Return(Get(choice.d, "label", EmptyStr))
          [] answer_type = "text" -> Return(Get(answer.d, "text", EmptyStr))
          [] answer_type = "number" -> Return(Get(answer.d, "number", Num(0)))
          [] OTHER -> Return(EmptyStr)

\* lines 99-106: the value derived from one answer entry (a dict) by its type
AnswerValue(answer) ==
    LET answer_type == Get(answer.d, "type", "")
    IN  CASE answer_type = "choice" ->
               LET choice == Get(answer.d, "choice", EmptyDict)
               IN  IF choice.t # "dict" THEN Raise("AttributeError")
                   ELSE Return(Get(choice.d, "label", EmptyStr))
          [] answer_type = "text" -> Return(Get(answer.d, "text", EmptyStr))
          [] answer_type = "number" -> Return(PyStr(Get(answer.d, "number", Num(0))))
          [] OTHER -> Return(EmptyStr)

\* lines 96-108: one pass of the loop body, answer_map[field_ref] = value
ExtractOne(answer, answer_map) ==
    IF answer.t # "dict" THEN Raise("AttributeError")
    ELSE LET field == Get(answer.d, "field", EmptyDict)
         IN  IF field.t # "dict" THEN Raise("AttributeError")
             ELSE LET field_ref == Get(field.d, "ref", "")
                      value == AnswerValue(answer)
                  IN  IF Raised(value) THEN value
                      ELSE Return(Put(answer_map, field_ref, value.ret))

\* Mutant of ExtractLoop: the exception is caught inside the loop, so the entries
\* extracted before the malformed one are kept
RECURSIVE ExtractLoopKeep(_, _, _)
ExtractLoopKeep(entries, i, answer_map) ==
    IF i > Len(entries) THEN Return(answer_map)
    ELSE LET next == ExtractOne(entries[i], answer_map)
         IN  IF Raised(next) THEN Return(answer_map)
             ELSE ExtractLoopKeep(entries, i + 1, next.ret)

\* the loop of lines 95-108 over the entries from index i on
RECURSIVE ExtractLoop(_, _, _)
ExtractLoop(entries, i, answer_map) ==
    IF i > Len(entries) THEN Return(answer_map)
    ELSE LET next == ExtractOne(entries[i], answer_map)
         IN  IF Raised(next) THEN next ELSE ExtractLoop(entries, i + 1, next.ret)

\* `for answer in answers`: the items a value yields when iterated.  A dict yields
\* its keys and a str its characters, both str; None and int are not iterable.
Iterate(v) ==
    CASE v.t = "list" -> Return(v.items)
      [] v.t = "dict" ->
            LET ks == v.keys
            IN  Return([i \in 1..Len(ks) |-> Str(Chars(ks[i]))])
      [] v.t = "str" -> Return([i \in 1..Len(v.s) |-> Str(<<v.s[i]>>)])
      [] OTHER -> Raise("TypeError")

\* the body of the try block, lines 92-110
ExtractAnswersTry(p) ==
    IF p.t # "dict" THEN Raise("AttributeError")
    ELSE LET form_response == Get(p.d, "form_response", EmptyDict)
         IN  IF form_response.t # "dict" THEN Raise("AttributeError")
             ELSE LET entries == Iterate(Get(form_response.d, "answers", List(<< >>)))
                  IN  IF Raised(entries) THEN entries
                      ELSE ExtractLoop(entries.ret, 1, EmptyMap)

\* _extract_answers: any exception is caught and the empty Answer Map returned
ExtractAnswers(p) ==
    LET r == ExtractAnswersTry(p) IN IF Raised(r) THEN EmptyMap ELSE r.ret

----------------------------------------------------------------------------
(* HealthScoreService.calculate *)

\* lines 55-60: the six raw scores in order; the first exception propagates
RECURSIVE RawScores(_, _, _)
\* a call's result as the one-element list of what it returned
Single(r) == IF Raised(r) THEN r ELSE Return(<<r.ret>>)

RawScores(lk, ans, p) ==
    IF p > Len(Pillars) THEN Return(<< >>)
    ELSE Collected(Single(CalculatePillarScore(lk, ans, Pillars[p])),
                   RawScores(lk, ans, p + 1))

\* Mutant of Overall: the mean is truncated to one decimal instead of rounded
OverallTruncated(n) == (n[1] + n[2] + n[3] + n[4] + n[5] + n[6]) \div 6

\* Binary floating point, for the one place where the rounding of a float
\* decides a result: a mean that lies halfway between two tenths.  A double is
\* held as the whole number of units of 2^-60 it is worth, and a whole number
\* as its digits to the base 4096, the lowest first.
Base == 4096

\* the digits of 2^60
FloatUnit == <<0, 0, 0, 0, 0, 1>>

RECURSIVE Pow2(_)
Pow2(k) == IF k = 0 THEN 1 ELSE 2 * Pow2(k - 1)

\* the number of bits of a small number
RECURSIVE Bits(_)
Bits(n) == IF n = 0 THEN 0 ELSE 1 + Bits(n \div 2)

DigitAt(a, i) == IF i \in 1..Len(a) THEN a[i] ELSE 0

\* the position of the highest digit that is not 0, 0 for zero
Top(a) ==
    IF \A i \in 1..Len(a) : a[i] = 0 THEN 0
    ELSE CHOOSE i \in 1..Len(a) : a[i] # 0 /\ \A j \in (i + 1)..Len(a) : a[j] = 0

\* the number of bits of a
BitLen(a) == IF Top(a) = 0 THEN 0 ELSE 12 * (Top(a) - 1) + Bits(a[Top(a)])

\* a + b + carry, from the digit i on
RECURSIVE AddFrom(_, _, _, _)
AddFrom(a, b, i, carry) ==
    IF i > Len(a) /\ i > Len(b)
    THEN IF carry = 0 THEN << >> ELSE <<carry>>
    ELSE <<(DigitAt(a, i) + DigitAt(b, i) + carry) % Base>>
         \o AddFrom(a, b, i + 1, (DigitAt(a, i) + DigitAt(b, i) + carry) \div Base)

\* a * m + carry for a small number m, from the digit i on
RECURSIVE MulFrom(_, _, _, _)
MulFrom(a, m, i, carry) ==
    IF i > Len(a)
    THEN IF carry = 0 THEN << >> ELSE <<carry % Base>> \o MulFrom(a, m, i, carry \div Base)
    ELSE <<(a[i] * m + carry) % Base>> \o MulFrom(a, m, i + 1, (a[i] * m + carry) \div Base)

\* a < b
Less(a, b) ==
    \E i \in 1..Len(b) :
        /\ DigitAt(a, i) < b[i]
        /\ \A j \in (i + 1)..(Len(a) + Len(b)) : DigitAt(a, j) = DigitAt(b, j)

\* a divided by the small number d, digit by digit from the highest: at the
\* digit i the higher digits have given the quotient q and left the remainder
\* rem
RECURSIVE DivFrom(_, _, _, _, _)
DivFrom(a, d, i, rem, q) ==
    IF i = 0 THEN [q |-> q, r |-> rem]
    ELSE DivFrom(a, d, i - 1, (rem * Base + a[i]) % d, <<(rem * Base + a[i]) \div d>> \o q)

\* the quotient and the remainder of a by d
Div(a, d) == DivFrom(a, d, Len(a), 0, << >>)

\* the double nearest to the quotient `whole` with the remainder `r` left: the
\* 53 highest bits are kept and what lies below them rounds to the nearest, a
\* tie to the even neighbour
Rounded(whole, r) ==
    IF BitLen(whole) <= 53 THEN whole
    ELSE LET ulp == Pow2(BitLen(whole) - 53)
             kept == Div(whole, ulp).q
             below == Div(whole, ulp).r
             up == \/ 2 * below > ulp
                   \/ 2 * below = ulp /\ (r > 0 \/ DigitAt(kept, 1) % 2 = 1)
         IN  MulFrom(IF up THEN AddFrom(kept, <<1>>, 1, 0) ELSE kept, ulp, 1, 0)

\* the double nearest to a / d
FloatDiv(a, d) == Rounded(Div(a, d).q, Div(a, d).r)

\* the double a + b of two doubles
FloatAdd(a, b) == Rounded(AddFrom(a, b, 1, 0), 0)

\* the double a score of `tenths` tenths is: round(x, 1) returns the double
\* nearest to that decimal
FloatOf(tenths) == FloatDiv(MulFrom(FloatUnit, tenths, 1, 0), 10)

\* round(x, 1), in tenths, of a double x next to the tie between q and q + 1
\* tenths: the side of the tie on which x lies, the even neighbour when x is
\* the tie itself
RoundAtTie(x, q) ==
    LET tie == MulFrom(FloatUnit, 2 * q + 1, 1, 0)
    IN  IF Less(MulFrom(x, 20, 1, 0), tie) THEN q
        ELSE IF Less(tie, MulFrom(x, 20, 1, 0)) THEN q + 1
        ELSE IF q % 2 = 0 THEN q ELSE q + 1

\* lines 71-72 in floating point: the six scores added from the left and the
\* sum divided by 6.0
FloatMean(n) ==
    FloatDiv(FloatAdd(FloatAdd(FloatAdd(FloatAdd(FloatAdd(FloatOf(n[1]), FloatOf(n[2])),
                                                 FloatOf(n[3])),
                                        FloatOf(n[4])),
                               FloatOf(n[5])),
                      FloatOf(n[6])),
             6)

\* lines 71-82: round((sum of the six normalized scores) / 6.0, 1), in tenths.
\* The float of the mean lies within a rounding error of the exact mean, so it
\* rounds to the tenth nearest to the exact mean unless that is a tie; a tie is
\* decided by the float.
Overall(n) ==
    LET total == n[1] + n[2] + n[3] + n[4] + n[5] + n[6]
    IN  IF total % 6 = 3 THEN RoundAtTie(FloatMean(n), total \div 6)
        ELSE RoundDiv(total, 6)

\* PillarScores(...), models/pillar_scores.py
PillarScores(n, overall) ==
    [muscles_and_visceral_fat |-> n[1], cardio_vascular |-> n[2], sleep |-> n[3],
     cognitive |-> n[4], metabolic |-> n[5], emotional |-> n[6], overall |-> overall]

\* Mutant of Calculate: the extractor's exception is not caught and propagates
CalculateUnprotected(lk, p) ==
    LET a == ExtractAnswersTry(p)
    IN  IF Raised(a) THEN a
        ELSE LET raw == RawScores(lk, a.ret, 1)
             IN  IF Raised(raw) THEN raw
                 ELSE LET n == [i \in 1..6 |-> NormalizeScore(raw.ret[i])]
                      IN  Return(PillarScores(n, Overall(n)))

\* lines 62-82 on the six raw scores
Normalized(raw) ==
    IF Raised(raw) THEN raw
    ELSE LET n == [i \in 1..6 |-> NormalizeScore(raw.ret[i])]
         IN  Return(PillarScores(n, Overall(n)))

Calculate(lk, p) == Normalized(RawScores(lk, ExtractAnswers(p), 1))

\* Mutant of LookupsAfterScoring: looking up a question the table does not hold
\* adds it with no keys, as a defaultdict would
LookupsAfterScoringInserting(lk, ans) ==
    [u \in (DOMAIN lk) \cup (DOMAIN ans) |-> IF u \in DOMAIN lk THEN lk[u] ELSE << >>]

\* self._lookups after calculate: lines 120-135 only test membership in it, index
\* it and iterate its keys
LookupsAfterScoring(lk, ans) == lk

----------------------------------------------------------------------------
(* JsonProcessingService._extract_user_name *)

DefaultUserName == Str(<<"U", "s", "e", "r">>)

\* Mutant of UserNameLoop: the scan goes on after a match and the last entry
\* whose field ref is 'name_field_ref' gives the name
RECURSIVE UserNameLoopLast(_, _)
UserNameLoopLast(entries, i) ==
    IF i > Len(entries) THEN Return(DefaultUserName)
    ELSE LET answer == entries[i]
         IN  IF answer.t # "dict" THEN Raise("AttributeError")
             ELSE LET field == Get(answer.d, "field", EmptyDict)
                  IN  IF field.t # "dict" THEN Raise("AttributeError")
                      ELSE LET later == UserNameLoopLast(entries, i + 1)
                           IN  IF Raised(later) THEN later
                               ELSE IF Get(field.d, "ref", "") = "name_field_ref"
                                       /\ later.ret = DefaultUserName
                               THEN Return(Get(answer.d, "text", DefaultUserName))
                               ELSE later

\* the loop of lines 76-79 from index i on: the text of the first entry whose
\* field ref is 'name_field_ref'
RECURSIVE UserNameLoop(_, _)
UserNameLoop(entries, i) ==
    IF i > Len(entries) THEN Return(DefaultUserName)
    ELSE LET answer == entries[i]
         IN  IF answer.t # "dict" THEN Raise("AttributeError")
             ELSE LET field == Get(answer.d, "field", EmptyDict)
                  IN  IF field.t # "dict" THEN Raise("AttributeError")
                      ELSE IF Get(field.d, "ref", "") = "name_field_ref"
                           THEN Return(Get(answer.d, "text", DefaultUserName))
                           ELSE UserNameLoop(entries, i + 1)

ExtractUserNameTry(p) ==
    IF p.t # "dict" THEN Raise("AttributeError")
    ELSE LET form_response == Get(p.d, "form_response", EmptyDict)
         IN  IF form_response.t # "dict" THEN Raise("AttributeError")
             ELSE LET entries == Iterate(Get(form_response.d, "answers", List(<< >>)))
                  IN  IF Raised(entries) THEN entries
                      ELSE UserNameLoop(entries.ret, 1)

ExtractUserName(p) ==
    LET r == ExtractUserNameTry(p) IN IF Raised(r) THEN DefaultUserName ELSE r.ret

----------------------------------------------------------------------------
(* HealthScoreService.__init__: loading the Lookup Table *)

\* The answer-map resource, by what open() (line 12) and json.load (line 13)
\* do with it: a JSON object mapping question identifiers to ordered mappings
\* (a sequence of key/sub-score pairs with distinct keys, in the order
\* json.load keeps them), or a resource one of the two calls raises on:
\*   missing          no file at the path                 FileNotFoundError
\*   directory        the path names a directory          IsADirectoryError
\*   not_a_directory  `data` is a file                    NotADirectoryError
\*   unreadable       the process may not read the file   PermissionError
\*   undecodable      bytes that are not UTF-8            UnicodeDecodeError
\*   invalid          text the decoder rejects            json.JSONDecodeError
\*   too_deep         nesting deeper than the decoder recurses  RecursionError
\*   huge_integer     an integer of more than 4300 digits, in a well-formed
\*                    object or in text cut off after it  ValueError
\* Line 15 catches FileNotFoundError and json.JSONDecodeError only: every
\* other exception leaves __init__.
LoadLookups(file) ==
    LET loaded ==
          CASE file.kind = "json" -> Return(file.content)
            [] file.kind = "missing" -> Raise("FileNotFoundError")
            [] file.kind = "directory" -> Raise("IsADirectoryError")
            [] file.kind = "not_a_directory" -> Raise("NotADirectoryError")
            [] file.kind = "unreadable" -> Raise("PermissionError")
            [] file.kind = "undecodable" -> Raise("UnicodeDecodeError")
            [] file.kind = "invalid" -> Raise("JSONDecodeError")
            [] file.kind = "too_deep" -> Raise("RecursionError")
            [] file.kind = "huge_integer" -> Raise("ValueError")
    IN  IF Raised(loaded) /\ loaded.exc \in {"FileNotFoundError", "JSONDecodeError"}
        THEN Return(EmptyMap)
        ELSE loaded

\* strings the keys of the Lookup Table and the answers are drawn from
Texts == {<< >>, <<"a">>, <<"A">>, <<"b">>, <<"a", "b">>, <<"A", "b">>, <<"b", "a">>}

\* sub-scores, in tenths: 0.0, 4.0 and 5.0
SubScores == {0, 40, 50}

Distinct(seq) == \A i, j \in 1..Len(seq) : i # j => seq[i] # seq[j]

KeyLists == UNION {{ks \in [1..n -> Texts] : Distinct(ks)} : n \in 0..MaxKeys}

Mappings ==
    UNION {{[i \in 1..Len(ks) |-> [key |-> ks[i], score |-> sc[i]]] :
                sc \in [1..Len(ks) -> SubScores]} : ks \in KeyLists}

JsonFile(table) == [kind |-> "json", content |-> table]

\* every question of every pillar mapped by one of the bounded mappings
ScorerFiles == {JsonFile([u \in AllUuids |-> m]) : m \in Mappings}

\* the mapping of the pipeline's Lookup Tables: "a" -> 4.0, "12" -> 5.0
PipelineMapping == <<[key |-> <<"a">>, score |-> 40], [key |-> <<"1", "2">>, score |-> 50]>>

PipelineFiles ==
    {[kind |-> "missing"], [kind |-> "invalid"], [kind |-> "undecodable"],
     [kind |-> "too_deep"], [kind |-> "huge_integer"], [kind |-> "directory"],
     [kind |-> "not_a_directory"], [kind |-> "unreadable"],
     JsonFile([u \in AllUuids |-> PipelineMapping]),
     JsonFile([u \in Range(Pillar2) |-> PipelineMapping])}

----------------------------------------------------------------------------
(* Payloads *)

Field(ref) == Dict([ref |-> ref])

\* an answer entry: the fields of `body` beside the given 'field'
Entry(field, body) == Dict([field |-> field] @@ body)

ChoiceBody(label) == [type |-> "choice", choice |-> Dict([label |-> label])]
TextBody(text) == [type |-> "text", text |-> text]
NumberBody(number) == [type |-> "number", number |-> number]
EmailBody == [type |-> "email", email |-> Str(<<"x">>)]
UntypedBody == [text |-> Str(<<"a">>)]

FormResponse(fr) == Dict([form_response |-> fr])
AnswersPayload(entries) == FormResponse(Dict([answers |-> List(entries)]))

SeqsUpTo(S, n) == UNION {[1..k -> S] : k \in 0..n}

\* payloads of the scorer's specification: well-formed text answers to the one
\* question of pillar 5 and to the two questions of pillar 1, and answers to the
\* question of pillar 5 without a type or of a type that has no value
ScorerPayloads ==
    {AnswersPayload(<<Entry(Field(Pillar5[1]), TextBody(Str(t)))>>) : t \in Texts}
    \cup {AnswersPayload(<<Entry(Field(Pillar1[1]), TextBody(Str(t)))>>) : t \in Texts}
    \cup {AnswersPayload(<<Entry(Field(Pillar1[1]), TextBody(Str(t[1]))),
                           Entry(Field(Pillar1[2]), ChoiceBody(Str(t[2])))>>) :
              t \in Texts \X Texts}
    \cup {AnswersPayload(<<Entry(Field(Pillar5[1]), b)>>) : b \in {UntypedBody, EmailBody}}
    \cup {AnswersPayload(<< >>)}

PayloadTexts == {<<"a">>, <<"c">>}
PayloadRefs == {Pillar1[1], Pillar1[2], "name_field_ref"}

WellFormedBodies ==
    {ChoiceBody(Str(t)) : t \in PayloadTexts}
    \cup {TextBody(Str(t)) : t \in PayloadTexts}
    \cup {NumberBody(Num(12)), EmailBody, UntypedBody}

WellFormedEntries == {Entry(Field(u), b) : u \in PayloadRefs, b \in WellFormedBodies}

\* entries with a null or non-string answer value, or a broken structure
MalformedEntries ==
    {Entry(Field(Pillar1[1]), b) :
        b \in {ChoiceBody(None), TextBody(None), TextBody(Num(5)), TextBody(List(<< >>)),
               [type |-> "choice", choice |-> None]}}
    \cup {Entry(None, TextBody(Str(<<"a">>))),
          Dict(TextBody(Str(<<"a">>))),
          None, Str(<<"a">>)}

Entries == WellFormedEntries \cup MalformedEntries

\* payloads of the pipeline: every answer list up to MaxAnswers entries, and the
\* payloads broken above the answer list
BrokenPayloads ==
    {None, Num(1), Str(<<"a">>), List(<< >>), EmptyDict,
     FormResponse(None), FormResponse(EmptyDict), FormResponse(List(<< >>)),
     FormResponse(Dict([answers |-> None])), FormResponse(Dict([answers |-> EmptyDict])),
     FormResponse(Dict([answers |-> Str(<<"a">>)]))}

PipelinePayloads ==
    {AnswersPayload(es) : es \in SeqsUpTo(Entries, MaxAnswers)} \cup BrokenPayloads

\* the text handed to process_json: a document json.loads parses to `value`, or
\* text it rejects
JsonText(value) == [valid |-> TRUE, value |-> value]
BadJsonText == [valid |-> FALSE]
\* the text of a file open(path, 'w') has created and nothing was written to
EmptyText == [valid |-> FALSE, empty |-> TRUE]
JsonLoads(text) == IF text.valid THEN Return(text.value) ELSE Raise("JSONDecodeError")

----------------------------------------------------------------------------
(* The file store and the names of the artifacts *)

\* a local not assigned yet, a value not there
Nothing == [t |-> "unset"]

\* uuid.uuid4(): a token it has not returned before
Uuid4 == tokens_issued + 1

\* Mutant of ArtifactPath: the name is built from the kind and the timestamp alone
ArtifactPathByTime(kind, ts, token) == [kind |-> kind, ts |-> ts, token |-> 0]

\* f"{kind}_{datetime.utcnow().strftime('%Y%m%d_%H%M%S')}_{uuid.uuid4().hex}"
\* joined to the directory of the kind
ArtifactPath(kind, ts, token) == [kind |-> kind, ts |-> ts, token |-> token]

\* os.path.exists(path)
Exists(store, path) == path \in DOMAIN store

\* open(path, 'w'), savefig(path) or doc.build(): the file is created, or its
\* content replaced; `writes` counts the writes that targeted the path
Write(store, path, content) ==
    [p \in (DOMAIN store) \cup {path} |->
        IF p = path
        THEN [content |-> content,
              writes |-> IF path \in DOMAIN store THEN store[path].writes + 1 ELSE 1]
        ELSE store[p]]

\* the file is removed from the store by its operator
Remove(store, path) == [p \in (DOMAIN store) \ {path} |-> store[p]]

----------------------------------------------------------------------------
(* matplotlib.pyplot: the open figures, the current one last *)

\* plt.subplots(): a new figure, numbered after the open ones, becomes current
NextNum(fs) ==
    IF fs = << >> THEN 1
    ELSE 1 + (CHOOSE n \in {fs[i].num : i \in 1..Len(fs)} :
                 \A i \in 1..Len(fs) : fs[i].num <= n)

Subplots(fs) ==
    Append(fs, [num |-> NextNum(fs), plotted |-> {}, xticks |-> FALSE, yticks |-> FALSE,
                title |-> FALSE, layout |-> FALSE])

\* plt.gcf(): the current figure
Gcf(fs) == fs[Len(fs)]

\* plt.xticks(...): on the axes of the current figure
PltXticks(fs) == [fs EXCEPT ![Len(fs)].xticks = TRUE]

\* plt.yticks(...): on the axes of the current figure
PltYticks(fs) == [fs EXCEPT ![Len(fs)].yticks = TRUE]

\* ax.plot(...), ax.fill(...), ax.annotate(...): on the axes of the figure the
\* caller created
AxPlot(fs, num, scores) ==
    [i \in 1..Len(fs) |->
        IF fs[i].num = num THEN [fs[i] EXCEPT !.plotted = @ \cup {scores}] ELSE fs[i]]

\* plt.title(...): on the axes of the current figure
PltTitle(fs) == [fs EXCEPT ![Len(fs)].title = TRUE]

\* plt.tight_layout(): on the current figure
PltTightLayout(fs) == [fs EXCEPT ![Len(fs)].layout = TRUE]

\* what plt.savefig(filepath) writes: the image of the current figure
Image(fig) ==
    [plotted |-> fig.plotted, xticks |-> fig.xticks, yticks |-> fig.yticks,
     title |-> fig.title, layout |-> fig.layout]

\* plt.close(fig)
PltClose(fs, num) == SelectSeq(fs, LAMBDA f : f.num # num)

\* the report doc.build() writes: the table of the scores and, if the chart
\* file exists, its image
Report(store, scores, chart) ==
    [scores |-> scores,
     chart |-> IF Exists(store, chart) THEN store[chart].content ELSE Nothing]

----------------------------------------------------------------------------
(* The state machine: construction, and the process_json pipeline *)

EmptyStore == [p \in {} |-> Nothing]

\* create_app: the services are constructed, the Lookup Table is loaded from
\* the answer-map resource and the API key read from the environment; no
\* request is in flight.  When HealthScoreService() raises (app.py, line 27)
\* create_app raises: no service is built and no request is ever served.
InitWith(resources, keys, stores) ==
    /\ \E file \in resources :
          IF Raised(LoadLookups(file))
          THEN lookups = Nothing /\ pc = "failed"
          ELSE lookups = LoadLookups(file).ret /\ pc = "idle"
    /\ api_key \in keys
    /\ files \in stores
    /\ payload = Nothing
    /\ answers = EmptyMap
    /\ user_name = Nothing
    /\ pillar_scores = Nothing
    /\ chart_path = Nothing
    /\ pdf_path = Nothing
    /\ result = Nothing
    /\ entry = Nothing
    /\ args = Nothing
    /\ calls = << >>
    /\ response = Nothing
    /\ tokens_issued = 0
    /\ now = 0
    /\ served = 0
    /\ threads = << >>
    /\ figs = << >>

\* A direct call of HealthScoreService.calculate(p)
CalculateCall(payloads) ==
    /\ pc = "idle"
    /\ \E p \in payloads :
          /\ payload' = JsonText(p)
          /\ answers' = ExtractAnswers(p)
          /\ pillar_scores' = Calculate(lookups, p)
          /\ lookups' = LookupsAfterScoring(lookups, ExtractAnswers(p))
    /\ pc' = "returned"
    /\ entry' = "calculate"
    /\ UNCHANGED <<user_name, chart_path, pdf_path, result, args, calls,
                   response, store_vars, served, api_key, thread_vars>>

\* process_json, lines 29-37 and 53-58, on the text handed to it: parse, resolve
\* the display name and score; an exception of json.loads or of calculate ends
\* the call in the except branch.
ProcessJsonSteps(text) ==
    LET parsed == JsonLoads(text)
    IN  /\ payload' = text
        /\ IF Raised(parsed)
           THEN /\ result' = [success |-> FALSE, message |-> "Error processing JSON"]
                /\ pc' = "done"
                /\ UNCHANGED <<lookups, answers, user_name, pillar_scores>>
           ELSE /\ user_name' = ExtractUserName(parsed.ret)
                /\ answers' = ExtractAnswers(parsed.ret)
                /\ pillar_scores' = Calculate(lookups, parsed.ret)
                /\ lookups' = LookupsAfterScoring(lookups, answers')
                /\ IF Raised(pillar_scores')
                   THEN /\ result' = [success |-> FALSE,
                                      message |-> "Error processing JSON"]
                        /\ pc' = "done"
                   ELSE /\ pc' = "scored"
                        /\ UNCHANGED result

\* A direct call of JsonProcessingService.process_json(text)
ProcessJson(payloads) ==
    /\ pc = "idle"
    /\ served < MaxDirectCalls
    /\ \E text \in {JsonText(p) : p \in payloads} \cup {BadJsonText} :
          ProcessJsonSteps(text)
    /\ entry' = "process_json"
    /\ UNCHANGED <<chart_path, pdf_path, args, calls, response, store_vars,
                   served, api_key, thread_vars>>

\* the invocation of a collaborator, as the call log keeps it
ChartCall(scores) == [fn |-> "generate_chart", pillar_scores |-> scores]

\* Mutant of PdfCall: the Document Renderer is handed the default display name
PdfCallDefaultName(scores, chart, name) ==
    [fn |-> "generate_pdf_report", pillar_scores |-> scores, chart_path |-> chart,
     user_name |-> DefaultUserName]

PdfCall(scores, chart, name) ==
    [fn |-> "generate_pdf_report", pillar_scores |-> scores, chart_path |-> chart,
     user_name |-> name]

Returned(call, value) == [call |-> call, returned |-> value]
RaisedIn(call) == [call |-> call, raised |-> TRUE]

\* generate_chart, lines 58-160, on a figure of its own: what is on the open
\* figures after the call `upto`
Drawn(fs, scores, upto) ==
    CASE upto = "subplots" -> Subplots(fs)
      [] upto = "xticks" -> PltXticks(Subplots(fs))
      [] upto = "yticks" -> PltYticks(PltXticks(Subplots(fs)))
      [] upto = "plot" -> AxPlot(PltYticks(PltXticks(Subplots(fs))), NextNum(fs), scores)
      [] upto = "title" ->
            PltTitle(AxPlot(PltYticks(PltXticks(Subplots(fs))), NextNum(fs), scores))
      [] upto = "tight_layout" ->
            PltTightLayout(PltTitle(AxPlot(PltYticks(PltXticks(Subplots(fs))),
                                           NextNum(fs), scores)))

\* process_health_scores, line 31: generate_chart draws the scores on a figure of
\* its own, saves it under a fresh name, closes it and returns the path
GenerateChart ==
    /\ pc = "scored"
    /\ LET path == ArtifactPath("chart", now, Uuid4)
           drawn == Drawn(figs, pillar_scores.ret, "tight_layout")
       IN  /\ files' = Write(files, path, Image(Gcf(drawn)))
           /\ figs' = PltClose(drawn, NextNum(figs))
           /\ chart_path' = path
           /\ calls' = Append(calls, Returned(ChartCall(pillar_scores.ret), path))
    /\ tokens_issued' = tokens_issued + 1
    /\ pc' = "charted"
    /\ UNCHANGED <<lookups, payload, answers, user_name, pillar_scores, pdf_path, result,
                   entry, args, response, now, served, api_key, threads>>

\* the calls of generate_chart at which it can raise: plt.subplots (line 58),
\* plt.xticks (65), plt.yticks (68), ax.plot (74-87), plt.title (157),
\* plt.tight_layout (160), plt.savefig (167) and plt.close (168).  ax.grid (61)
\* leaves what plt.xticks leaves, ax.fill (90) and ax.annotate (147) what
\* plt.title leaves.
ChartRaisePoints ==
    <<"subplots", "xticks", "yticks", "plot", "title", "tight_layout", "savefig", "close">>

\* the open figures when generate_chart raised at the call ChartRaisePoints[at]:
\* the figure it opened in the call before stays open with what was drawn on
\* it, plt.close (168) is not reached or has raised
FigsWhenRaised(fs, scores, at) ==
    IF at = 1 THEN fs
    ELSE Drawn(fs, scores, ChartRaisePoints[IF at > 7 THEN 6 ELSE at - 1])

\* generate_chart raises.  The name has been built (163) when plt.savefig or
\* plt.close raises, the file has been written (167) when plt.close raises;
\* process_health_scores returns None (lines 43-45) and process_json the failure
\* of lines 48-52
GenerateChartRaises ==
    /\ pc = "scored"
    /\ \E at \in 1..Len(ChartRaisePoints) :
          /\ figs' = FigsWhenRaised(figs, pillar_scores.ret, at)
          /\ tokens_issued' = IF at > 6 THEN tokens_issued + 1 ELSE tokens_issued
          /\ files' = IF at = 8
                      THEN Write(files, ArtifactPath("chart", now, Uuid4),
                                 Image(Gcf(figs')))
                      ELSE files
    /\ calls' = Append(calls, RaisedIn(ChartCall(pillar_scores.ret)))
    /\ result' = [success |-> FALSE, message |-> "Failed to process health scores"]
    /\ pc' = "done"
    /\ UNCHANGED <<lookups, payload, answers, user_name, pillar_scores, chart_path,
                   pdf_path, entry, args, response, now, served, api_key, threads>>

\* process_health_scores, lines 34-42, and process_json, lines 42-47
GeneratePdfReport ==
    /\ pc = "charted"
    /\ LET path == ArtifactPath("report", now, Uuid4)
           call == PdfCall(pillar_scores.ret, chart_path, user_name)
       IN  /\ files' = Write(files, path,
                             Report(files, call.pillar_scores, call.chart_path))
           /\ pdf_path' = path
           /\ calls' = Append(calls, Returned(call, path))
    /\ tokens_issued' = tokens_issued + 1
    /\ result' = [success |-> TRUE, message |-> "JSON processed successfully",
                  data |-> [chart_path |-> chart_path, pdf_report_path |-> pdf_path',
                            user_name |-> user_name, pillar_scores |-> pillar_scores.ret]]
    /\ pc' = "done"
    /\ UNCHANGED <<lookups, payload, answers, user_name, pillar_scores, chart_path,
                   entry, args, response, now, served, api_key, thread_vars>>

\* Mutant of GeneratePdfReportRaises: the failure of the Document Renderer is
\* swallowed and a result holding the chart alone is reported as a success
GeneratePdfReportRaisesPartial ==
    /\ pc = "charted"
    /\ calls' = Append(calls, RaisedIn(PdfCall(pillar_scores.ret, chart_path, user_name)))
    /\ result' = [success |-> TRUE, message |-> "JSON processed successfully",
                  data |-> [chart_path |-> chart_path, pdf_report_path |-> None,
                            user_name |-> user_name, pillar_scores |-> pillar_scores.ret]]
    /\ pc' = "done"
    /\ UNCHANGED <<lookups, payload, answers, user_name, pillar_scores, chart_path,
                   pdf_path, entry, args, response, store_vars, served, api_key,
                   thread_vars>>

\* Mutant of GeneratePdfReportRaises: after the failure of the Document Renderer
\* the request is left where it can call the renderer again
GeneratePdfReportRaisesRetry ==
    /\ pc = "charted"
    /\ calls' = Append(calls, RaisedIn(PdfCall(pillar_scores.ret, chart_path, user_name)))
    /\ UNCHANGED <<lookups, pc, payload, answers, user_name, pillar_scores, chart_path,
                   pdf_path, result, entry, args, response, store_vars, served, api_key,
                   thread_vars>>

\* generate_pdf_report raises after the chart was written: the name of the
\* report has been built (line 31), no file is written
GeneratePdfReportRaises ==
    /\ pc = "charted"
    /\ calls' = Append(calls, RaisedIn(PdfCall(pillar_scores.ret, chart_path, user_name)))
    /\ tokens_issued' = tokens_issued + 1
    /\ result' = [success |-> FALSE, message |-> "Failed to process health scores"]
    /\ pc' = "done"
    /\ UNCHANGED <<lookups, payload, answers, user_name, pillar_scores, chart_path,
                   pdf_path, entry, args, response, files, now, served, api_key,
                   thread_vars>>

\* the entry point has returned: calculate its scores, process_json its result,
\* a controller its response; the service waits for the next request
Respond ==
    /\ \/ pc \in {"returned", "responded"}
       \/ pc = "done" /\ entry = "process_json"
    /\ pc' = "idle"
    /\ payload' = Nothing
    /\ answers' = EmptyMap
    /\ user_name' = Nothing
    /\ pillar_scores' = Nothing
    /\ chart_path' = Nothing
    /\ pdf_path' = Nothing
    /\ result' = Nothing
    /\ entry' = Nothing
    /\ args' = Nothing
    /\ calls' = << >>
    /\ response' = Nothing
    /\ served' = IF entry = "calculate" THEN served ELSE served + 1
    /\ UNCHANGED <<lookups, store_vars, api_key, thread_vars>>

\* SENDGRID_API_KEY: not set, or set
ApiKeys == {None, Str(<<"k">>)}

Init == InitWith(PipelineFiles, {Str(<<"k">>)}, {EmptyStore})

ProcessJsonCall == ProcessJson(PipelinePayloads)

Next ==
    \/ ProcessJsonCall
    \/ GenerateChart
    \/ GenerateChartRaises
    \/ GeneratePdfReport
    \/ GeneratePdfReportRaises
    \/ Respond

Spec == Init /\ [][Next]_vars

\* The scorer on its own: calculate called directly, over the bounded Lookup Tables
InitScorer == InitWith(ScorerFiles, {Str(<<"k">>)}, {EmptyStore})

ScorerCall == CalculateCall(ScorerPayloads)

NextScorer == ScorerCall \/ Respond

SpecScorer == InitScorer /\ [][NextScorer]_vars

\* The scorer over answers to questions of several pillars: waist circumference
\* (pillar 1), systolic blood pressure (pillar 2) and protein intake (pillar 5),
\* answered by a text the table maps to 4.0, by the number 12 it maps to 5.0, by
\* a text it does not hold, or by a choice whose label is null
PillarRefs == {Pillar1[1], Pillar2[1], Pillar5[1]}

PillarBodies ==
    {TextBody(Str(<<"a">>)), NumberBody(Num(12)), TextBody(Str(<<"c">>)), ChoiceBody(None)}

PillarEntries == {Entry(Field(u), b) : u \in PillarRefs, b \in PillarBodies}

PillarPayloads == {AnswersPayload(es) : es \in SeqsUpTo(PillarEntries, MaxAnswers)}

InitPillars ==
    InitWith({JsonFile([u \in AllUuids |-> PipelineMapping]),
              JsonFile([u \in Range(Pillar2) |-> PipelineMapping])},
             {Str(<<"k">>)}, {EmptyStore})

PillarsCall == CalculateCall(PillarPayloads)

NextPillars == PillarsCall \/ Respond

SpecPillars == InitPillars /\ [][NextPillars]_vars

----------------------------------------------------------------------------
(* EmailService.send_email_with_pdf *)

\* what sg.send(message) does: it returns, or raises an error without a body,
\* with a JSON body, with a body of plain text, or with a body of bytes that
\* are not UTF-8
MailOutcomes == {"sent", "error", "json_body", "text_body", "undecodable_body"}

SendFailure(body) ==
    [success |-> FALSE, error |-> "Failed to send email", response_body |-> body]

\* send_email_with_pdf, lines 120-133: the result that ends the call before
\* the document is opened, or nothing; os.path.exists(None) raises into the
\* except branch of line 182
SendEmailLook(store, key, pdf) ==
    IF ~Truthy(key)
    THEN Return([success |-> FALSE, error |-> "SendGrid API key not configured"])
    ELSE IF pdf = None
    THEN Return(SendFailure(None))
    ELSE IF ~Exists(store, pdf)
    THEN Return([success |-> FALSE, error |-> "PDF file not found"])
    ELSE Nothing

\* lines 139-141: open(pdf_path, 'rb') raises when the document is gone, into
\* the except branch of line 182 (the error has no body)
SendEmailRead(store, pdf) ==
    IF Exists(store, pdf) THEN Nothing ELSE Return(SendFailure(None))

\* lines 172-210: sg.send(message) and what is made of its outcome; the except
\* branch decodes the body of the error a second time when parsing it failed
\* (line 197), outside any try
SendEmailSend(to_email, outcome) ==
    CASE outcome = "sent" ->
             Return([success |-> TRUE, message |-> "Email sent successfully",
                     to_email |-> to_email])
      [] outcome = "error" -> Return(SendFailure(None))
      [] outcome = "json_body" -> Return(SendFailure(EmptyDict))
      [] outcome = "text_body" -> Return(SendFailure(Str(<<"e">>)))
      [] outcome = "undecodable_body" -> Raise("UnicodeDecodeError")

EmailCall(to_email, pdf) ==
    [fn |-> "send_email_with_pdf", to_email |-> to_email, pdf_path |-> pdf]

\* a call of send_email_with_pdf in the call log, with what it returned, or
\* that it raised; `existed` tells whether the document was in the store when
\* the call was made
Notified(existed, to_email, pdf, r) ==
    IF Raised(r)
    THEN [call |-> EmailCall(to_email, pdf), existed |-> existed, raised |-> TRUE]
    ELSE [call |-> EmailCall(to_email, pdf), existed |-> existed, result |-> r.ret]

\* a controller's os.path.exists(path) in the call log
Checked(store, path) ==
    [call |-> [fn |-> "os.path.exists", path |-> path], found |-> Exists(store, path)]

----------------------------------------------------------------------------
(* What the entry points return *)

\* `return {...}`
Plain(body) == [body |-> body]
\* `return {...}, status`
WithStatus(body, status) == [body |-> body, status |-> status]
\* `return path`
BarePath(path) == [path |-> path]

Failure(error, status) == WithStatus([success |-> FALSE, error |-> error], status)

\* the except branch of each entry point
ErrorOf(name) ==
    CASE name = "process_webhook" -> "Failed to process webhook"
      [] name = "process_webhook_to_pdf" -> "Failed to save webhook data"
      [] name = "process_webhook_and_email" -> "Failed to process webhook and send email"
      [] name = "list_files" -> "Failed to list files"
      [] name = "get_file_content" -> "Failed to read file"
      [] name = "process_file" -> "Failed to process file"
      [] name = "send_file_email" -> "Failed to send email"

----------------------------------------------------------------------------
(* WebhookController *)

EmailRef == "39f116ed-5403-407a-b506-c9625e9e6b2a"

\* the loop of lines 35-39 from index i on
RECURSIVE EmailLoop(_, _)
EmailLoop(entries, i) ==
    IF i > Len(entries) THEN Return(None)
    ELSE LET answer == entries[i]
         IN  IF answer.t # "dict" THEN Raise("AttributeError")
             ELSE IF Get(answer.d, "type", "") = "email" /\ "field" \in DOMAIN answer.d
             THEN IF answer.d.field.t # "dict" THEN Raise("AttributeError")
                  ELSE IF Get(answer.d.field.d, "ref", "") = EmailRef
                  THEN Return(Get(answer.d, "email", None))
                  ELSE EmailLoop(entries, i + 1)
             ELSE EmailLoop(entries, i + 1)

\* `key in v`: a key of a dict, an item of a list, a part of a str; None and an
\* int hold nothing
Member(key, v) ==
    CASE v.t = "dict" -> Return(key \in DOMAIN v.d)
      [] v.t = "list" -> Return(\E i \in 1..Len(v.items) : v.items[i] = Str(Chars(key)))
      [] v.t = "str" -> Return(Contains(Chars(key), v.s))
      [] OTHER -> Raise("TypeError")

\* `v[key]` after `key in v` held: the value under the key of a dict; a list or
\* a str is not indexed by a str
Subscript(v, key) == IF v.t = "dict" THEN Return(v.d[key]) ELSE Raise("TypeError")

\* line 35, once both membership tests held
EmailScan(form_response) ==
    IF Raised(form_response) THEN form_response
    ELSE IF Raised(Member("answers", form_response.ret))
    THEN Member("answers", form_response.ret)
    ELSE IF ~Member("answers", form_response.ret).ret THEN Return(None)
    ELSE IF Raised(Subscript(form_response.ret, "answers"))
    THEN Subscript(form_response.ret, "answers")
    ELSE IF Raised(Iterate(form_response.ret.d.answers))
    THEN Iterate(form_response.ret.d.answers)
    ELSE EmailLoop(Iterate(form_response.ret.d.answers).ret, 1)

\* lines 33-40: the membership tests and the loop
ExtractEmailTry(p) ==
    IF Raised(Member("form_response", p)) THEN Member("form_response", p)
    ELSE IF ~Member("form_response", p).ret THEN Return(None)
    ELSE EmailScan(Subscript(p, "form_response"))

\* _extract_email_from_payload, lines 31-43
ExtractEmailFromPayload(p) ==
    LET r == ExtractEmailTry(p) IN IF Raised(r) THEN None ELSE r.ret

\* Mutant of WebhookSaveAndProcess: the payload is processed without being saved
WebhookProcessUnsaved(name, p, to_email) ==
    LET path == ArtifactPath("Webhook", now, Uuid4)
    IN  /\ files' = files
        /\ tokens_issued' = tokens_issued + 1
        /\ entry' = name
        /\ args' = [fileName |-> path, to_email |-> to_email]
        /\ ProcessJsonSteps(JsonText(p))
        /\ UNCHANGED <<chart_path, pdf_path, calls, response, now, served,
                       api_key, thread_vars>>

\* lines 55-66, 92-103 and 140-151: the payload is saved under a fresh name and
\* handed to process_json as the text json.dumps makes of it
WebhookSaveAndProcess(name, p, to_email) ==
    LET path == ArtifactPath("Webhook", now, Uuid4)
    IN  /\ files' = Write(files, path, [text |-> JsonText(p)])
        /\ tokens_issued' = tokens_issued + 1
        /\ entry' = name
        /\ args' = [fileName |-> path, to_email |-> to_email]
        /\ ProcessJsonSteps(JsonText(p))
        /\ UNCHANGED <<chart_path, pdf_path, calls, response, now, served,
                       api_key, thread_vars>>

\* process_webhook, lines 68-74
ProcessWebhookResult(res, fileName) ==
    Plain([success |-> TRUE,
           message |-> "Webhook received, saved, and processed successfully",
           fileName |-> fileName,
           processingResult |-> res])

HasData(res) == res.success /\ "data" \in DOMAIN res

PdfFailure(res) ==
    WithStatus([success |-> FALSE, error |-> "Failed to generate PDF from webhook data",
                processingResult |-> res], 500)

\* Mutant of ProcessWebhookToPdfResult: the document is not looked for
ProcessWebhookToPdfResultUnchecked(store, res, fileName) ==
    IF HasData(res) /\ res.data.pdf_report_path # None
    THEN Plain([success |-> TRUE,
                message |-> "Webhook processed and PDF generated successfully",
                fileName |-> fileName,
                pdf_path |-> res.data.pdf_report_path])
    ELSE PdfFailure(res)

\* process_webhook_to_pdf, lines 105-121
ProcessWebhookToPdfResult(store, res, fileName) ==
    IF HasData(res) /\ res.data.pdf_report_path # None
                    /\ Exists(store, res.data.pdf_report_path)
    THEN Plain([success |-> TRUE,
                message |-> "Webhook processed and PDF generated successfully",
                fileName |-> fileName,
                pdf_path |-> res.data.pdf_report_path])
    ELSE PdfFailure(res)

\* Mutant of DocumentThere: the document is taken to be there whatever the look
\* at the disk said
DocumentThereUnchecked(store, pdf) == TRUE

\* `pdf_path and os.path.exists(pdf_path)` (line 170), `os.path.exists(pdf_path)`
\* (file_routes.py, line 137)
DocumentThere(store, pdf) == Exists(store, pdf)

\* Mutant of WebhookRecipient: the address in the payload goes before the one
\* supplied with the request
WebhookRecipientPayloadFirst(to_email, p) ==
    IF Truthy(ExtractEmailFromPayload(p)) THEN ExtractEmailFromPayload(p) ELSE to_email

\* lines 159-161: the address supplied, or else the one in the payload
WebhookRecipient(to_email, p) ==
    IF Truthy(to_email) THEN to_email ELSE ExtractEmailFromPayload(p)

\* process_webhook_and_email, lines 154-170 and 191-196: the response that ends
\* the request before the Notifier is called, or the recipient and the document
\* the existence check found; with them the invocations made
ProcessWebhookAndEmailChecked(store, res, p, to_email) ==
    IF ~HasData(res)
    THEN [response |-> PdfFailure(res), calls |-> << >>]
    ELSE LET pdf == res.data.pdf_report_path
             recipient == WebhookRecipient(to_email, p)
         IN  IF ~Truthy(recipient)
             THEN [response |-> Failure("No email address provided or found in payload",
                                        400),
                   calls |-> << >>]
             ELSE IF pdf = None
             THEN [response |-> PdfFailure(res), calls |-> << >>]
             ELSE IF DocumentThere(store, pdf)
             THEN [recipient |-> recipient, pdf |-> pdf,
                   calls |-> <<Checked(store, pdf)>>]
             ELSE [response |-> PdfFailure(res), calls |-> <<Checked(store, pdf)>>]

\* process_webhook_and_email, lines 183-189 and 197-202: the response made of
\* what send_email_with_pdf returned, or of its exception
ProcessWebhookAndEmailResult(r, res, fileName) ==
    IF Raised(r)
    THEN Failure(ErrorOf("process_webhook_and_email"), 500)
    ELSE Plain([success |-> r.ret.success,
                message |-> IF r.ret.success
                            THEN "Webhook processed and email sent successfully"
                            ELSE "Failed to send email",
                fileName |-> fileName,
                processingResult |-> res,
                emailResult |-> r.ret])

----------------------------------------------------------------------------
(* FileController and ReportController *)

\* a name that is no file of the store, and the empty path
MissingFile == [kind |-> "missing", ts |-> 0, token |-> 0]
EmptyPath == [kind |-> "", ts |-> 0, token |-> 0]

\* a file put into the JSON directory by hand, holding text that is not JSON
UploadedFile == [kind |-> "upload", ts |-> 0, token |-> 0]

\* the files of the JSON storage directory
JsonFiles(store) == {p \in DOMAIN store : p.kind \in {"Webhook", "upload"}}

\* st_ctime: a file of the directory is written once, in the step that builds
\* its name, so the second in the name and the order of the tokens tell when it
\* was created; the file put there by hand was there before
CreatedAt(p) == [ts |-> p.ts, token |-> p.token]

\* st_size: the length of the text the file holds
SizeOf(content) == [of |-> content]

\* lines 31-37: the entry of one file
FileEntry(store, p) ==
    [name |-> p, createdAt |-> CreatedAt(p), size |-> SizeOf(store[p].content)]

\* line 40: files.sort(key=createdAt, reverse=True), the newest first
RECURSIVE NewestFirst(_, _)
NewestFirst(store, ps) ==
    IF ps = {} THEN << >>
    ELSE LET newest == CHOOSE p \in ps : \A q \in ps : q.token <= p.token
         IN  <<FileEntry(store, newest)>> \o NewestFirst(store, ps \ {newest})

\* list_files, lines 26-45
ListFilesResult(store) ==
    Plain([success |-> TRUE, files |-> NewestFirst(store, JsonFiles(store))])

\* get_file_content, lines 63-88
GetFileContentResult(store, filename) ==
    IF filename \notin JsonFiles(store)
    THEN Failure("File not found", 404)
    ELSE LET content == JsonLoads(store[filename].content.text)
         IN  IF Raised(content)
             THEN Failure(ErrorOf("get_file_content"), 500)
             ELSE Plain([success |-> TRUE, fileName |-> filename,
                         content |-> content.ret])

\* process_file, lines 119-142
ProcessFileResult(res, output_format) ==
    IF HasData(res)
    THEN IF output_format = "html"
         THEN Plain([success |-> res.success, message |-> res.message,
                     chartUrl |-> res.data.chart_path, data |-> res.data])
         ELSE Plain([success |-> res.success, message |-> res.message,
                     pdfUrl |-> res.data.pdf_report_path,
                     chartUrl |-> res.data.chart_path,
                     pdfPath |-> res.data.pdf_report_path, data |-> res.data])
    ELSE Plain(res)

\* Mutant of ServeResult: only the empty path is refused, the file is not looked for
ServeResultEmptyOnly(store, path, message) ==
    IF path = EmptyPath
    THEN WithStatus([success |-> FALSE, message |-> message], 404)
    ELSE BarePath(path)

\* download_pdf, lines 30-45, and view_chart, lines 57-73
ServeResult(store, path, message) ==
    IF path = EmptyPath \/ ~Exists(store, path)
    THEN WithStatus([success |-> FALSE, message |-> message], 404)
    ELSE BarePath(path)

----------------------------------------------------------------------------
(* file_routes.send_file_email *)

\* lines 103-110, run outside any try of their own
FileEmail(content) ==
    IF content.t = "dict" THEN ExtractEmailTry(content) ELSE Return(None)

\* Mutant of SendFileEmailStart: the query parameter goes before the address
\* stored in the file
SendFileEmailStartQueryFirst(store, filename, email) ==
    LET file_result == GetFileContentResult(store, filename)
    IN  IF "status" \in DOMAIN file_result
        THEN [response |-> Failure("File not found or could not be read", 404)]
        ELSE LET found == FileEmail(file_result.body.content)
             IN  IF Raised(found)
                 THEN [response |-> Failure(ErrorOf("send_file_email"), 500)]
                 ELSE LET to_email == IF Truthy(email) THEN email ELSE found.ret
                      IN  IF ~Truthy(to_email)
                          THEN [response |-> Failure("No email address found", 400)]
                          ELSE [to_email |-> to_email]

\* lines 82-122: the response that ends the request before the file is
\* processed, or the recipient
SendFileEmailStart(store, filename, email) ==
    LET file_result == GetFileContentResult(store, filename)
    IN  IF "status" \in DOMAIN file_result
        THEN [response |-> Failure("File not found or could not be read", 404)]
        ELSE LET found == FileEmail(file_result.body.content)
             IN  IF Raised(found)
                 THEN [response |-> Failure(ErrorOf("send_file_email"), 500)]
                 ELSE LET to_email == IF Truthy(found.ret) THEN found.ret ELSE email
                      IN  IF ~Truthy(to_email)
                          THEN [response |-> Failure("No email address found", 400)]
                          ELSE [to_email |-> to_email]

\* lines 144-151: the name of the greeting, from the content read at line 92.
\* `'name' in content['user']` and `'definition' in content['form_response']`
\* raise TypeError for a value that is no container, content['user']['name']
\* for one that is no mapping, outside any try but the handler's own
FileUserName(content, filename) ==
    IF content.t # "dict" THEN Return(DefaultUserName)
    ELSE IF "user" \in DOMAIN content.d /\ Raised(Member("name", content.d.user))
    THEN Member("name", content.d.user)
    ELSE IF "user" \in DOMAIN content.d /\ Member("name", content.d.user).ret
    THEN Subscript(content.d.user, "name")
    ELSE IF "form_response" \in DOMAIN content.d
            /\ Raised(Member("definition", content.d.form_response))
    THEN Member("definition", content.d.form_response)
    ELSE IF "form_response" \in DOMAIN content.d
            /\ Member("definition", content.d.form_response).ret
    THEN Return([t |-> "str", s |-> Chars("User "), then |-> filename])
    ELSE Return(DefaultUserName)

\* lines 127-151, after process_file returned: the response that ends the request
\* before the Notifier is called, or the document the existence check found;
\* os.path.exists(None) raises, and so may the lines that look for the name
SendFileEmailChecked(store, res, content, filename) ==
    LET process_result == ProcessFileResult(res, "pdf").body
    IN  IF ~process_result.success \/ "pdfPath" \notin DOMAIN process_result
        THEN [response |-> Failure("Failed to process file", 500), calls |-> << >>]
        ELSE LET pdf == process_result.pdfPath
             IN  IF pdf = None
                 THEN [response |-> Failure(ErrorOf("send_file_email"), 500),
                       calls |-> << >>]
                 ELSE IF ~DocumentThere(store, pdf)
                 THEN [response |-> Failure("PDF file not found", 500),
                       calls |-> <<Checked(store, pdf)>>]
                 ELSE IF Raised(FileUserName(content, filename))
                 THEN [response |-> Failure(ErrorOf("send_file_email"), 500),
                       calls |-> <<Checked(store, pdf)>>]
                 ELSE [pdf |-> pdf, calls |-> <<Checked(store, pdf)>>]

\* lines 191-203: the response made of what send_email_with_pdf returned, or
\* of its exception
SendFileEmailResult(r, filename, to_email) ==
    IF Raised(r)
    THEN Failure(ErrorOf("send_file_email"), 500)
    ELSE Plain([success |-> r.ret.success,
                message |-> IF r.ret.success
                            THEN "Email sent successfully"
                            ELSE "Failed to send email",
                filename |-> filename,
                emailResult |-> r.ret,
                to_email |-> to_email])

----------------------------------------------------------------------------
(* The state machine: the entry points of the controllers *)

\* payloads of the webhooks: a scored answer with the respondent's address, an
\* answer matching no key, a null label with the address, no payload at all,
\* an answer list holding a string, a form response that is the text
\* 'answers', and the respondent's address beside a null 'user'
WebPayloads ==
    {AnswersPayload(<<Entry(Field(Pillar1[1]), TextBody(Str(<<"a">>))),
                      Entry(Field(EmailRef), EmailBody)>>),
     AnswersPayload(<<Entry(Field(Pillar1[1]), TextBody(Str(<<"c">>)))>>),
     AnswersPayload(<<Entry(Field(Pillar1[1]), ChoiceBody(None)),
                      Entry(Field(EmailRef), EmailBody)>>),
     None,
     AnswersPayload(<<Str(<<"a">>)>>),
     FormResponse(Str(Chars("answers"))),
     DictOf(<<"form_response", "user">>,
            [form_response |-> Dict([answers |-> List(<<Entry(Field(EmailRef), EmailBody)>>)]),
             user |-> None])}

\* the `email` query parameter: absent, or given
QueryEmails == {None, Str(<<"q">>)}

OutputFormats == {"pdf", "html"}

\* the answer-map resources of the deployments: the full table, none, and
\* those the load raises on
WebResources ==
    {JsonFile([u \in AllUuids |-> PipelineMapping]), [kind |-> "missing"],
     [kind |-> "undecodable"], [kind |-> "too_deep"], [kind |-> "huge_integer"],
     [kind |-> "directory"], [kind |-> "not_a_directory"], [kind |-> "unreadable"]}

\* the storage directory holds one file that is not JSON
WebStore == Write(EmptyStore, UploadedFile, [text |-> BadJsonText])

CanServe == pc = "idle" /\ served < MaxRequests

ProcessWebhook ==
    /\ CanServe
    /\ \E p \in WebPayloads : WebhookSaveAndProcess("process_webhook", p, None)

\* process_webhook, lines 68-74: the response
ProcessWebhookReturn ==
    /\ pc = "done"
    /\ entry = "process_webhook"
    /\ response' = ProcessWebhookResult(result, args.fileName)
    /\ pc' = "responded"
    /\ UNCHANGED <<lookups, payload, answers, user_name, pillar_scores, chart_path,
                   pdf_path, result, entry, args, calls, store_vars, served, api_key,
                   thread_vars>>

ProcessWebhookToPdf ==
    /\ CanServe
    /\ \E p \in WebPayloads : WebhookSaveAndProcess("process_webhook_to_pdf", p, None)

\* process_webhook_to_pdf, lines 105-121: the response
ProcessWebhookToPdfReturn ==
    /\ pc = "done"
    /\ entry = "process_webhook_to_pdf"
    /\ response' = ProcessWebhookToPdfResult(files, result, args.fileName)
    /\ pc' = "responded"
    /\ UNCHANGED <<lookups, payload, answers, user_name, pillar_scores, chart_path,
                   pdf_path, result, entry, args, calls, store_vars, served, api_key,
                   thread_vars>>

ProcessWebhookAndEmail ==
    /\ CanServe
    /\ \E p \in WebPayloads, to_email \in QueryEmails :
          WebhookSaveAndProcess("process_webhook_and_email", p, to_email)

\* what the steps of an e-mail entry point between the end of process_json and
\* the response leave alone
email_step_unchanged ==
    <<lookups, payload, answers, user_name, pillar_scores, chart_path, pdf_path,
      result, entry, args, store_vars, served, api_key, thread_vars>>

\* process_webhook_and_email, lines 154-170: the recipient is chosen and the
\* document looked for; the request ends here unless both are there
ProcessWebhookAndEmailCheck ==
    /\ pc = "done"
    /\ entry = "process_webhook_and_email"
    /\ calls' = calls \o ProcessWebhookAndEmailChecked(files, result, payload.value,
                                                      args.to_email).calls
    /\ IF "response" \in DOMAIN ProcessWebhookAndEmailChecked(files, result,
                                                             payload.value, args.to_email)
       THEN /\ response' = ProcessWebhookAndEmailChecked(files, result, payload.value,
                                                         args.to_email).response
            /\ pc' = "responded"
       ELSE /\ pc' = "checked"
            /\ UNCHANGED response
    /\ UNCHANGED email_step_unchanged

\* the recipient and the document the entry point hands to the Notifier
\* (webhook_controller.py, lines 175-180; file_routes.py, lines 181-189)
Recipient ==
    IF entry = "process_webhook_and_email"
    THEN WebhookRecipient(args.to_email, payload.value)
    ELSE args.to_email

\* send_email_with_pdf has returned `r`, or raised it, to the entry point: the
\* invocation is logged and the entry point answers
EmailReturns(r, existed) ==
    /\ calls' = Append(calls, Notified(existed, Recipient,
                                       result.data.pdf_report_path, r))
    /\ response' = IF entry = "process_webhook_and_email"
                   THEN ProcessWebhookAndEmailResult(r, result, args.fileName)
                   ELSE SendFileEmailResult(r, args.filename, args.to_email)
    /\ pc' = "responded"

\* the entry point calls send_email_with_pdf (webhook_controller.py, line 175;
\* file_routes.py, line 181), which looks at its key and for the document
\* (email_service.py, lines 120-133)
SendEmailLooks ==
    /\ pc = "checked"
    /\ LET r == SendEmailLook(files, api_key, result.data.pdf_report_path)
       IN  IF r = Nothing
           THEN pc' = "looked" /\ UNCHANGED <<calls, response>>
           ELSE EmailReturns(r, Exists(files, result.data.pdf_report_path))
    /\ UNCHANGED email_step_unchanged

\* email_service.py, lines 136-169: the document is opened and read, the
\* message built
SendEmailReads ==
    /\ pc = "looked"
    /\ LET r == SendEmailRead(files, result.data.pdf_report_path)
       IN  IF r = Nothing
           THEN pc' = "sending" /\ UNCHANGED <<calls, response>>
           ELSE EmailReturns(r, TRUE)
    /\ UNCHANGED email_step_unchanged

\* process_webhook_and_email, lines 175-189 and 197-202: sg.send(message) has
\* answered or failed (email_service.py, lines 173-210), the Notifier returns
\* and the entry point answers
ProcessWebhookAndEmailReturn ==
    /\ pc = "sending"
    /\ entry = "process_webhook_and_email"
    /\ \E outcome \in MailOutcomes :
          EmailReturns(SendEmailSend(Recipient, outcome), TRUE)
    /\ UNCHANGED email_step_unchanged

\* the storage directory cannot be written, listed or read: open(), json.dump(),
\* f.read() or os.listdir() raises and the entry point returns from its except
\* branch.  A webhook entry point has built the name of the file by then (uuid4
\* at lines 57, 94, 142); when it is json.dump that raises (lines 62, 99, 147),
\* open() has created the file and it stays, holding what reached the disk
\* before the refusal: nothing, or a proper prefix of the payload's text, which
\* json.loads rejects.  In send_file_email a failed read of
\* get_file_content is answered with 404 (file_routes.py, lines 92-100); a
\* failed read of process_file comes back as a tuple, whose .get raises at line
\* 128 into the handler's except (lines 198-203), after the recipient was found.
FileStoreFails ==
    /\ CanServe
    /\ \/ \E name \in {"process_webhook", "process_webhook_to_pdf",
                        "process_webhook_and_email"}, at \in {"open", "json.dump"},
                left \in {EmptyText, BadJsonText} :
             /\ entry' = name
             /\ response' = Failure(ErrorOf(name), 500)
             /\ tokens_issued' = tokens_issued + 1
             /\ files' = IF at = "json.dump"
                         THEN Write(files, ArtifactPath("Webhook", now, Uuid4),
                                    [text |-> left])
                         ELSE files
             /\ UNCHANGED args
       \/ \E name \in {"list_files", "get_file_content", "process_file"} :
             /\ entry' = name
             /\ response' = Failure(ErrorOf(name), 500)
             /\ UNCHANGED <<args, files, tokens_issued>>
       \/ \E filename \in JsonFiles(files), email \in QueryEmails :
             /\ entry' = "send_file_email"
             /\ \/ /\ response' = Failure("File not found or could not be read", 404)
                   /\ args' = [filename |-> filename, email |-> email,
                               to_email |-> None, fault |-> "get_file_content"]
                \/ /\ "to_email" \in DOMAIN SendFileEmailStart(files, filename, email)
                   /\ response' = Failure(ErrorOf("send_file_email"), 500)
                   /\ args' = [filename |-> filename, email |-> email,
                               to_email |-> SendFileEmailStart(files, filename,
                                                               email).to_email,
                               fault |-> "process_file"]
             /\ UNCHANGED <<files, tokens_issued>>
    /\ pc' = "responded"
    /\ UNCHANGED <<lookups, payload, answers, user_name, pillar_scores, chart_path,
                   pdf_path, result, calls, now, served, api_key, thread_vars>>

\* the file names a request may carry: those of the directory and one of no file
FileNames == JsonFiles(files) \cup {MissingFile}

\* a controller answers in one step
Answer(name, arguments, value) ==
    /\ CanServe
    /\ entry' = name
    /\ args' = arguments
    /\ response' = value
    /\ pc' = "responded"
    /\ UNCHANGED <<lookups, payload, answers, user_name, pillar_scores, chart_path,
                   pdf_path, result, calls, store_vars, served, api_key, thread_vars>>

ListFiles == Answer("list_files", Nothing, ListFilesResult(files))

GetFileContent ==
    \E filename \in FileNames :
        Answer("get_file_content", [filename |-> filename],
               GetFileContentResult(files, filename))

DownloadPdf ==
    \E path \in (DOMAIN files) \cup {MissingFile, EmptyPath} :
        Answer("download_pdf", [path |-> path],
               ServeResult(files, path, "PDF file not found or path is invalid"))

ViewChart ==
    \E path \in (DOMAIN files) \cup {MissingFile, EmptyPath} :
        Answer("view_chart", [path |-> path],
               ServeResult(files, path, "Chart file not found or path is invalid"))

\* process_file, lines 101-117: a file that is not there is answered with 404,
\* the text of one that is goes to process_json
ProcessFile ==
    /\ CanServe
    /\ \E filename \in FileNames, output_format \in OutputFormats :
          /\ entry' = "process_file"
          /\ args' = [filename |-> filename, output_format |-> output_format]
          /\ IF filename \notin JsonFiles(files)
             THEN /\ response' = Failure("File not found", 404)
                  /\ pc' = "responded"
                  /\ UNCHANGED <<lookups, payload, answers, user_name, pillar_scores,
                                 result>>
             ELSE /\ ProcessJsonSteps(files[filename].content.text)
                  /\ UNCHANGED response
    /\ UNCHANGED <<chart_path, pdf_path, calls, store_vars, served, api_key,
                   thread_vars>>

\* process_file, lines 119-142: the response
ProcessFileReturn ==
    /\ pc = "done"
    /\ entry = "process_file"
    /\ response' = ProcessFileResult(result, args.output_format)
    /\ pc' = "responded"
    /\ UNCHANGED <<lookups, payload, answers, user_name, pillar_scores, chart_path,
                   pdf_path, result, entry, args, calls, store_vars, served, api_key,
                   thread_vars>>

\* send_file_email, lines 82-125, and process_file, lines 101-117
SendFileEmail ==
    /\ CanServe
    /\ \E filename \in FileNames, email \in QueryEmails :
          LET start == SendFileEmailStart(files, filename, email)
          IN  /\ entry' = "send_file_email"
              /\ IF "response" \in DOMAIN start
                 THEN /\ response' = start.response
                      /\ args' = [filename |-> filename, email |-> email,
                                  to_email |-> None]
                      /\ pc' = "responded"
                      /\ UNCHANGED <<lookups, payload, answers, user_name,
                                     pillar_scores, result>>
                 ELSE /\ args' = [filename |-> filename, email |-> email,
                                  to_email |-> start.to_email]
                      /\ ProcessJsonSteps(files[filename].content.text)
                      /\ UNCHANGED response
    /\ UNCHANGED <<chart_path, pdf_path, calls, store_vars, served, api_key,
                   thread_vars>>

\* send_file_email, lines 127-151: the document is looked for and the name of
\* the greeting taken from the content of the file (read at line 92; the same
\* text process_file read); the request ends here unless the document is there
\* and the name is found without an exception
SendFileEmailCheck ==
    /\ pc = "done"
    /\ entry = "send_file_email"
    /\ calls' = calls \o SendFileEmailChecked(files, result, payload.value,
                                              args.filename).calls
    /\ IF "response" \in DOMAIN SendFileEmailChecked(files, result, payload.value,
                                                     args.filename)
       THEN /\ response' = SendFileEmailChecked(files, result, payload.value,
                                                args.filename).response
            /\ pc' = "responded"
       ELSE /\ pc' = "checked"
            /\ UNCHANGED response
    /\ UNCHANGED email_step_unchanged

\* send_file_email, lines 181-203: sg.send(message) has answered or failed
\* (email_service.py, lines 173-210), the Notifier returns and the route answers
SendFileEmailReturn ==
    /\ pc = "sending"
    /\ entry = "send_file_email"
    /\ \E outcome \in MailOutcomes :
          EmailReturns(SendEmailSend(Recipient, outcome), TRUE)
    /\ UNCHANGED email_step_unchanged

\* a generated document is removed from the output directory while the
\* service runs
RemoveFile ==
    /\ \E path \in {f \in DOMAIN files : f.kind = "report"} :
          files' = Remove(files, path)
    /\ UNCHANGED <<lookups, request_vars, tokens_issued, now, served, api_key,
                   thread_vars>>

InitWeb == InitWith(WebResources, ApiKeys, {WebStore})

WebProcessJsonCall == ProcessJson(WebPayloads)

WebCalculateCall == CalculateCall(WebPayloads)

NextWeb ==
    \/ ProcessWebhook
    \/ ProcessWebhookToPdf
    \/ ProcessWebhookAndEmail
    \/ FileStoreFails
    \/ ListFiles
    \/ GetFileContent
    \/ ProcessFile
    \/ SendFileEmail
    \/ DownloadPdf
    \/ ViewChart
    \/ WebProcessJsonCall
    \/ WebCalculateCall
    \/ GenerateChart
    \/ GenerateChartRaises
    \/ GeneratePdfReport
    \/ GeneratePdfReportRaises
    \/ ProcessWebhookReturn
    \/ ProcessWebhookToPdfReturn
    \/ ProcessWebhookAndEmailCheck
    \/ SendEmailLooks
    \/ SendEmailReads
    \/ ProcessWebhookAndEmailReturn
    \/ ProcessFileReturn
    \/ SendFileEmailCheck
    \/ SendFileEmailReturn
    \/ RemoveFile
    \/ Respond

SpecWeb == InitWeb /\ [][NextWeb]_vars

----------------------------------------------------------------------------
(* The state machine: webhook requests served by concurrent threads *)

\* payloads of concurrent requests: one that scores 80.0 on the first pillar
\* and one that scores 0.0 everywhere
ConcPayloads ==
    {AnswersPayload(<<Entry(Field(Pillar1[1]), TextBody(Str(<<"a">>)))>>),
     AnswersPayload(<<Entry(Field(Pillar1[1]), TextBody(Str(<<"c">>)))>>)}

\* what the steps of the threads leave alone: the request served outside them
sequential_vars == <<request_vars, served, api_key>>

\* the thread t moves on to the step `next`
Goes(t, next) == [threads EXCEPT ![t].pc = next]

Running(step) == {t \in DOMAIN threads : threads[t].pc = step}

\* the server hands a webhook request to a new thread
Arrive ==
    /\ Len(threads) < MaxRequests
    /\ \E p \in ConcPayloads :
          threads' = Append(threads, [pc |-> "stamp_payload", payload |-> p,
                                      scores |-> Nothing, num |-> 0, stamp |-> Nothing,
                                      filepath |-> Nothing, saved |-> Nothing,
                                      chart |-> Nothing, report |-> Nothing])
    /\ UNCHANGED <<lookups, sequential_vars, store_vars, figs>>

\* The f-string of a name evaluates datetime.utcnow() first and uuid.uuid4()
\* after it, and the thread can be descheduled in between
\* (webhook_controller.py, line 57; chart_generation_service.py, line 163;
\* pdf_report_service.py, line 31).  This is the first half: the thread reads
\* the clock and keeps the second in `stamp`.
ReadClock ==
    LET after == [stamp_payload |-> "name", stamp_chart |-> "filename",
                  stamp_report |-> "report_name"]
    IN  /\ \E t \in DOMAIN threads :
              /\ threads[t].pc \in DOMAIN after
              /\ threads' = [Goes(t, after[threads[t].pc]) EXCEPT ![t].stamp = now]
        /\ UNCHANGED <<lookups, sequential_vars, store_vars, figs>>

\* The second half: uuid4 is called, and the name, built from the second read
\* before and the token, is kept in `filepath` (webhook_controller.py, lines
\* 57-58; chart_generation_service.py, lines 163-164; pdf_report_service.py,
\* lines 31-32)
BuildName(t, kind, next) ==
    /\ threads' = [Goes(t, next) EXCEPT
                      ![t].filepath = ArtifactPath(kind, threads[t].stamp, Uuid4),
                      ![t].stamp = Nothing]
    /\ tokens_issued' = tokens_issued + 1
    /\ UNCHANGED <<lookups, sequential_vars, files, now, figs>>

\* process_webhook, lines 57-58: uuid4 and the name of the payload's file, with
\* the second the thread read
NamePayload == \E t \in Running("name") : BuildName(t, "Webhook", "open")

\* process_webhook, line 61: open(filepath, 'w') creates the file, empty
OpenPayload ==
    /\ \E t \in Running("open") :
          /\ files' = Write(files, threads[t].filepath, [text |-> EmptyText])
          /\ threads' = [Goes(t, "save") EXCEPT ![t].saved = threads[t].filepath]
    /\ UNCHANGED <<lookups, sequential_vars, tokens_issued, now, figs>>

\* process_webhook, line 62: json.dump writes the payload into the open file
\* (the file another thread's open() has put under the same name meanwhile, if
\* there is one)
SavePayload ==
    /\ \E t \in Running("save") :
          /\ files' = [files EXCEPT ![threads[t].filepath].content =
                                        [text |-> JsonText(threads[t].payload)]]
          /\ threads' = Goes(t, "score")
    /\ UNCHANGED <<lookups, sequential_vars, tokens_issued, now, figs>>

\* process_json, line 37: calculate
Score ==
    /\ \E t \in Running("score") :
          /\ threads' = [Goes(t, "subplots") EXCEPT
                            ![t].scores = Calculate(lookups, threads[t].payload)]
          /\ lookups' = LookupsAfterScoring(lookups, ExtractAnswers(threads[t].payload))
    /\ UNCHANGED <<sequential_vars, store_vars, figs>>

\* generate_chart, line 58: fig, ax = plt.subplots(...)
ChartSubplots ==
    /\ \E t \in Running("subplots") :
          /\ figs' = Subplots(figs)
          /\ threads' = [Goes(t, "xticks") EXCEPT ![t].num = NextNum(figs)]
    /\ UNCHANGED <<lookups, sequential_vars, store_vars>>

\* line 65: plt.xticks(...)
ChartXticks ==
    /\ \E t \in Running("xticks") :
          /\ figs' = PltXticks(figs)
          /\ threads' = Goes(t, "yticks")
    /\ UNCHANGED <<lookups, sequential_vars, store_vars>>

\* line 68: plt.yticks(...)
ChartYticks ==
    /\ \E t \in Running("yticks") :
          /\ figs' = PltYticks(figs)
          /\ threads' = Goes(t, "plot")
    /\ UNCHANGED <<lookups, sequential_vars, store_vars>>

\* lines 73-154: ax.plot(...), ax.fill(...), ax.annotate(...)
ChartPlot ==
    /\ \E t \in Running("plot") :
          /\ figs' = AxPlot(figs, threads[t].num, threads[t].scores.ret)
          /\ threads' = Goes(t, "title")
    /\ UNCHANGED <<lookups, sequential_vars, store_vars>>

\* line 157: plt.title(...)
ChartTitle ==
    /\ \E t \in Running("title") :
          /\ figs' = PltTitle(figs)
          /\ threads' = Goes(t, "tight_layout")
    /\ UNCHANGED <<lookups, sequential_vars, store_vars>>

\* line 160: plt.tight_layout()
ChartTightLayout ==
    /\ \E t \in Running("tight_layout") :
          /\ figs' = PltTightLayout(figs)
          /\ threads' = Goes(t, "stamp_chart")
    /\ UNCHANGED <<lookups, sequential_vars, store_vars>>

\* lines 163-164: uuid4 and the name of the chart, with the second the thread
\* read
NameChart == \E t \in Running("filename") : BuildName(t, "chart", "savefig")

\* line 167: plt.savefig(filepath) of the current figure
ChartSave ==
    /\ \E t \in Running("savefig") :
          /\ files' = Write(files, threads[t].filepath, Image(Gcf(figs)))
          /\ threads' = [Goes(t, "close") EXCEPT ![t].chart = threads[t].filepath]
    /\ UNCHANGED <<lookups, sequential_vars, tokens_issued, now, figs>>

\* line 168: plt.close(fig)
ChartClose ==
    /\ \E t \in Running("close") :
          /\ figs' = PltClose(figs, threads[t].num)
          /\ threads' = Goes(t, "stamp_report")
    /\ UNCHANGED <<lookups, sequential_vars, store_vars>>

\* generate_pdf_report, lines 31-32: uuid4 and the name of the report, with the
\* second the thread read
NameReport == \E t \in Running("report_name") : BuildName(t, "report", "report")

\* generate_pdf_report, lines 35-110: doc.build() writes the report
BuildReport ==
    /\ \E t \in Running("report") :
          /\ files' = Write(files, threads[t].filepath,
                            Report(files, threads[t].scores.ret, threads[t].chart))
          /\ threads' = [Goes(t, "done") EXCEPT ![t].report = threads[t].filepath]
    /\ UNCHANGED <<lookups, sequential_vars, tokens_issued, now, figs>>

\* datetime.utcnow(): a second passes
Tick ==
    /\ now < MaxTime
    /\ now' = now + 1
    /\ UNCHANGED <<lookups, sequential_vars, files, tokens_issued, thread_vars>>

InitConc ==
    InitWith({JsonFile([u \in AllUuids |-> PipelineMapping])}, {Str(<<"k">>)},
             {EmptyStore})

NextConc ==
    \/ Arrive
    \/ ReadClock
    \/ NamePayload
    \/ OpenPayload
    \/ SavePayload
    \/ Score
    \/ ChartSubplots
    \/ ChartXticks
    \/ ChartYticks
    \/ ChartPlot
    \/ ChartTitle
    \/ ChartTightLayout
    \/ NameChart
    \/ ChartSave
    \/ ChartClose
    \/ NameReport
    \/ BuildReport
    \/ Tick

SpecConc == InitConc /\ [][NextConc]_vars

----------------------------------------------------------------------------
(* Vocabulary of the properties *)

\* calculate returned a Pillar Score Set
Scored == "ret" \in DOMAIN pillar_scores

\* the six pillar scores of a Pillar Score Set, in the order of Pillars
SixScores(ps) ==
    <<ps.muscles_and_visceral_fat, ps.cardio_vascular, ps.sleep,
      ps.cognitive, ps.metabolic, ps.emotional>>

ZeroScores == PillarScores([i \in 1..6 |-> 0], 0)

\* every sub-score of the Lookup Table lies in [0, 5]
SubScoresInRange ==
    \A u \in DOMAIN lookups :
        \A i \in 1..Len(lookups[u]) : lookups[u][i].score \in 0..50

\* the substring test of the fuzzy stage, in either direction
FuzzyHit(key, text) ==
    Contains(Lower(text), Lower(key)) \/ Contains(Lower(key), Lower(text))

\* the index of the first key, in stored order, that passes the test; 0 if none
FirstHit(mapping, text) ==
    LET hits == {i \in 1..Len(mapping) : FuzzyHit(mapping[i].key, text)}
    IN  IF hits = {} THEN 0 ELSE CHOOSE i \in hits : \A j \in hits : i <= j

ExactKey(mapping, text) == \E i \in 1..Len(mapping) : mapping[i].key = text

\* the questions both answered and known to the Lookup Table
Looked == (DOMAIN answers) \cap (DOMAIN lookups)

\* a payload was parsed by the call in flight
Parsed == pc \notin {"idle", "failed"} /\ payload.valid

\* the payload holds a list at form_response.answers
HasAnswerList(p) ==
    /\ p.t = "dict"
    /\ "form_response" \in DOMAIN p.d
    /\ p.d.form_response.t = "dict"
    /\ "answers" \in DOMAIN p.d.form_response.d
    /\ p.d.form_response.d.answers.t = "list"

AnswerList(p) == p.d.form_response.d.answers.items

TypeOf(e) == IF "type" \in DOMAIN e.d THEN e.d.type ELSE ""

HasStr(d, key) == key \in DOMAIN d /\ d[key].t = "str"

\* an answer entry of the form-tool's schema: a mapping with a field reference
\* and the value its type announces
WellFormedEntry(e) ==
    /\ e.t = "dict"
    /\ "field" \in DOMAIN e.d
    /\ e.d.field.t = "dict"
    /\ "ref" \in DOMAIN e.d.field.d
    /\ TypeOf(e) = "choice" =>
          "choice" \in DOMAIN e.d /\ e.d.choice.t = "dict" /\ HasStr(e.d.choice.d, "label")
    /\ TypeOf(e) = "text" => HasStr(e.d, "text")
    /\ TypeOf(e) = "number" => "number" \in DOMAIN e.d /\ e.d.number.t = "int"

\* the decimal numeral s denotes n
RECURSIVE DecimalValue(_)
DecimalValue(s) ==
    IF s = << >> THEN 0
    ELSE LET c == s[Len(s)]
             v == CHOOSE k \in 0..9 :
                     <<"0", "1", "2", "3", "4", "5", "6", "7", "8", "9">>[k + 1] = c
         IN  10 * DecimalValue(SubSeq(s, 1, Len(s) - 1)) + v

IsNumeral(s, n) ==
    /\ s # << >>
    /\ \A i \in 1..Len(s) : s[i] \in {"0", "1", "2", "3", "4", "5", "6", "7", "8", "9"}
    /\ (Len(s) > 1 => s[1] # "0")
    /\ DecimalValue(s) = n

----------------------------------------------------------------------------
(* Properties of the scorer, checked under SpecScorer *)

\* C1: when every sub-score of the Lookup Table lies in [0,5], each of the six
\* pillar scores calculate returns lies in [0,100] and the overall score is the
\* mean of the six normalized pillar scores rounded to one decimal (a multiple
\* of 0.1 nearest to the mean), hence in [0,100] too.
C1_ScoresBounded ==
    (Scored /\ SubScoresInRange) =>
        LET ps == pillar_scores.ret
            six == SixScores(ps)
            total == SumSeq(six)
            off == 6 * ps.overall - total
        IN  /\ \A p \in 1..6 : six[p] \in 0..1000
            /\ ps.overall \in 0..1000
            /\ off \in -3..3

\* a returned set whose mean, 100.0 / 6, has to be rounded up to 16.7
C1_Witness ==
    /\ pc = "returned"
    /\ Scored
    /\ SubScoresInRange
    /\ pillar_scores.ret.metabolic = 1000
    /\ pillar_scores.ret.overall = 167

\* C3: for an answer text that equals no key, the sub-score used is that of the
\* first key in stored order that passes the substring test in either direction,
\* and the question is skipped only when no key passes it.
C3_FirstFuzzyKeyUsed ==
    \A u \in Looked :
        (answers[u].t = "str" /\ ~ExactKey(lookups[u], answers[u].s)) =>
            LET h == FirstHit(lookups[u], answers[u].s)
            IN  Resolve(lookups, answers, u) =
                    IF h = 0 THEN Return(<< >>) ELSE Return(<<lookups[u][h].score>>)

\* C4: an answer equal (case-sensitively) to a key gets that key's sub-score even
\* when an earlier key passes the substring test; an answer that differs from a
\* key only in letter case is not an exact match: it gets the sub-score of the
\* first key the fuzzy scan accepts.
C4_ExactBeforeFuzzy ==
    \A u \in Looked :
        answers[u].t = "str" =>
            LET text == answers[u].s
                mapping == lookups[u]
                h == FirstHit(mapping, text)
            IN  /\ \A i \in 1..Len(mapping) :
                      mapping[i].key = text =>
                          Resolve(lookups, answers, u) = Return(<<mapping[i].score>>)
                /\ ( /\ ~ExactKey(mapping, text)
                     /\ \E i \in 1..Len(mapping) : Lower(mapping[i].key) = Lower(text) ) =>
                       /\ h # 0
                       /\ mapping[h].key # << >> =>
                             Resolve(lookups, answers, u) = Return(<<mapping[h].score>>)

\* the answer to the question of pillar 5 equals the second key while the first
\* key, with another sub-score, passes the substring test
C4_Witness ==
    /\ pc = "returned"
    /\ Scored
    /\ Pillar5[1] \in Looked
    /\ LET text == answers[Pillar5[1]].s
           mapping == lookups[Pillar5[1]]
       IN  /\ Len(mapping) >= 2
           /\ mapping[2].key = text
           /\ FuzzyHit(mapping[1].key, text)
           /\ mapping[1].score # mapping[2].score
           /\ pillar_scores.ret.metabolic = 20 * mapping[2].score

\* C5: a pillar's score is the mean of the sub-scores that resolved for its
\* questions, and of those alone, multiplied by 20 and rounded to one decimal;
\* it is 0 when none resolved.  With one question of pillar 1 resolving to 4.0
\* and the other not answered, pillar 1 scores 80.0.
C5_MeanOfResolved ==
    Scored =>
        /\ \A p \in 1..6 :
              LET sub == PillarSubScores(lookups, answers, Pillars[p], 1).ret
                  n == Len(sub)
                  m == SixScores(pillar_scores.ret)[p]
                  off == 2 * (m * n - 20 * SumSeq(sub))
              IN  /\ n = 0 => m = 0
                  /\ n > 0 => (off <= n /\ -off <= n)
        /\ ( /\ DOMAIN answers = {Pillar1[1]}
             /\ Resolve(lookups, answers, Pillar1[1]) = Return(<<40>>) ) =>
               pillar_scores.ret.muscles_and_visceral_fat = 800

\* one of the two questions of pillar 1 resolves to 4.0, the other is not answered
C5_Witness ==
    /\ pc = "returned"
    /\ Scored
    /\ DOMAIN answers = {Pillar1[1]}
    /\ Resolve(lookups, answers, Pillar1[1]) = Return(<<40>>)
    /\ pillar_scores.ret.muscles_and_visceral_fat = 800

----------------------------------------------------------------------------
(* Properties of the pipeline, checked under Spec *)

\* C2: calculate never raises, whatever the payload.
C2_CalculateNeverRaises == ~Raised(pillar_scores)

\* the question is not answered, not in the Lookup Table, or its answer matches
\* no key in either lookup stage
Unresolvable(u) ==
    \/ u \notin DOMAIN answers
    \/ u \notin DOMAIN lookups
    \/ ~( /\ answers[u].t = "str"
          /\ \/ ExactKey(lookups[u], answers[u].s)
             \/ FirstHit(lookups[u], answers[u].s) # 0 )

\* C6: a pillar none of whose questions resolves scores exactly 0, a number and
\* not an error.
C6_UnresolvedPillarIsZero ==
    Parsed =>
        \A p \in 1..6 :
            (\A u \in Range(Pillars[p]) : Unresolvable(u)) =>
                CalculatePillarScore(lookups, answers, Pillars[p]) =
                    Return([num |-> 0, den |-> 1])

\* the payload is not a mapping, or lacks a mapping at form_response, or lacks a
\* list at answers
StructurallyMalformed(p) == ~HasAnswerList(p)

\* C7: for a missing or structurally malformed payload calculate returns the
\* Pillar Score Set with the six pillars and the overall score equal to 0.
C7_MalformedPayloadScoresZero ==
    (Parsed /\ StructurallyMalformed(payload.value)) =>
        pillar_scores = Return(ZeroScores)

\* the empty mapping {} was scored
C7_Witness ==
    /\ pc = "scored"
    /\ payload = JsonText(EmptyDict)
    /\ pillar_scores = Return(ZeroScores)

\* C8: when the answer list holds well-formed entries, the Answer Map gives the
\* identifier of each entry (as far as no later entry repeats it) the label for a
\* choice, the text for a text, the decimal numeral of the number for a number
\* and the empty string for any other or missing type.
C8_ValueByType ==
    ( /\ Parsed
      /\ HasAnswerList(payload.value)
      /\ \A i \in 1..Len(AnswerList(payload.value)) :
            WellFormedEntry(AnswerList(payload.value)[i]) ) =>
        LET entries == AnswerList(payload.value)
            ref(i) == entries[i].d.field.d.ref
        IN  \A i \in 1..Len(entries) :
                (\A j \in (i + 1)..Len(entries) : ref(j) # ref(i)) =>
                    /\ ref(i) \in DOMAIN answers
                    /\ LET e == entries[i]
                           value == answers[ref(i)]
                       IN  /\ TypeOf(e) = "choice" => value = e.d.choice.d.label
                           /\ TypeOf(e) = "text" => value = e.d.text
                           /\ TypeOf(e) = "number" =>
                                 value.t = "str" /\ IsNumeral(value.s, e.d.number.n)
                           /\ TypeOf(e) \notin {"choice", "text", "number"} =>
                                 value = EmptyStr

\* a choice, a number entry and an entry of another type were extracted together
C8_Witness ==
    /\ pc = "scored"
    /\ payload.valid
    /\ HasAnswerList(payload.value)
    /\ LET entries == AnswerList(payload.value)
       IN  /\ Len(entries) = 2
           /\ \A i \in 1..2 : WellFormedEntry(entries[i])
           /\ TypeOf(entries[1]) = "number"
           /\ TypeOf(entries[2]) = "choice"
           /\ entries[1].d.field.d.ref # entries[2].d.field.d.ref
           /\ answers[entries[1].d.field.d.ref] = Str(<<"1", "2">>)
           /\ answers[entries[2].d.field.d.ref] = entries[2].d.choice.d.label

\* an element on the path to the answer list or inside it is malformed: the
\* payload or form_response is not a mapping, the answers cannot be iterated, an
\* entry is not a mapping, its field is not a mapping, or the choice of a choice
\* entry is not a mapping
MalformedEntry(e) ==
    \/ e.t # "dict"
    \/ ("field" \in DOMAIN e.d /\ e.d.field.t # "dict")
    \/ (TypeOf(e) = "choice" /\ "choice" \in DOMAIN e.d /\ e.d.choice.t # "dict")

MalformedPath(p) ==
    \/ p.t # "dict"
    \/ ("form_response" \in DOMAIN p.d /\ p.d.form_response.t # "dict")
    \/ /\ p.t = "dict"
       /\ "form_response" \in DOMAIN p.d
       /\ p.d.form_response.t = "dict"
       /\ "answers" \in DOMAIN p.d.form_response.d
       /\ p.d.form_response.d.answers.t # "list"
    \/ /\ HasAnswerList(p)
       /\ \E i \in 1..Len(AnswerList(p)) : MalformedEntry(AnswerList(p)[i])

\* C9: _extract_answers never raises, and returns the empty Answer Map when an
\* element on the path to or inside the answer list is malformed, whatever was
\* extracted before it.
C9_MalformedGivesEmptyMap ==
    /\ ~Raised(answers)
    /\ (Parsed /\ MalformedPath(payload.value)) => answers = EmptyMap

\* a well-formed entry is followed by a malformed one and the map is empty
C9_Witness ==
    /\ Parsed
    /\ HasAnswerList(payload.value)
    /\ LET entries == AnswerList(payload.value)
       IN  /\ Len(entries) = 2
           /\ WellFormedEntry(entries[1])
           /\ MalformedEntry(entries[2])
    /\ answers = EmptyMap

\* the Document Renderer raised after the Chart Renderer had returned a path
PdfFailedAfterChart == pc = "done" /\ chart_path # Nothing /\ pdf_path = Nothing

\* C10: if the Document Renderer raises after the Chart Renderer succeeded, the
\* result of process_json has success false, the message 'Failed to process
\* health scores', and no data: no document path, no chart path, no scores.
C10_PdfFailureFailsResult ==
    PdfFailedAfterChart =>
        /\ result.success = FALSE
        /\ result.message = "Failed to process health scores"
        /\ "data" \notin DOMAIN result

C10_Witness ==
    /\ PdfFailedAfterChart
    /\ Scored
    /\ result.success = FALSE

----------------------------------------------------------------------------
(* Properties of the orchestrator, checked under Spec *)

IsCall(c, fn) == c.call.fn = fn

\* C11: in process_health_scores the Chart Renderer is invoked before the
\* Document Renderer; the Document Renderer is invoked only after the Chart
\* Renderer returned, with exactly the path it returned, the same Pillar Score
\* Set and the display name of the request, so never when the Chart Renderer
\* raised; a successful result holds the chart path, the document path, the
\* user name and the pillar scores together.
C11_ChartBeforeDocument ==
    /\ \A i \in 1..Len(calls) :
          IsCall(calls[i], "generate_pdf_report") =>
              /\ i > 1
              /\ IsCall(calls[i - 1], "generate_chart")
              /\ "returned" \in DOMAIN calls[i - 1]
              /\ calls[i].call.chart_path = calls[i - 1].returned
              /\ calls[i].call.pillar_scores = calls[i - 1].call.pillar_scores
              /\ calls[i].call.pillar_scores = pillar_scores.ret
              /\ calls[i].call.user_name = user_name
    /\ (\E i \in 1..Len(calls) :
            IsCall(calls[i], "generate_chart") /\ "raised" \in DOMAIN calls[i]) =>
          ~\E j \in 1..Len(calls) : IsCall(calls[j], "generate_pdf_report")
    /\ (pc = "done" /\ result.success) =>
          /\ Len(calls) = 2
          /\ result.data = [chart_path |-> calls[1].returned,
                            pdf_report_path |-> calls[2].returned,
                            user_name |-> user_name,
                            pillar_scores |-> pillar_scores.ret]

\* both renderers ran for a request with a display name of its own, and the
\* result holds the four values
C11_Witness ==
    /\ pc = "done"
    /\ result.success
    /\ user_name # DefaultUserName
    /\ Len(calls) = 2
    /\ calls[2].call.chart_path = calls[1].returned
    /\ calls[2].returned # calls[1].returned
    /\ result.data.pdf_report_path = calls[2].returned

----------------------------------------------------------------------------
(* Properties of the entry points, checked under SpecWeb *)

EmailEntries == {"process_webhook_and_email", "send_file_email"}

\* the positions of the call log that hold an invocation of the Notifier
Notifications == {i \in 1..Len(calls) : IsCall(calls[i], "send_email_with_pdf")}

\* the positions that hold an existence check of a controller
Checks == {i \in 1..Len(calls) : IsCall(calls[i], "os.path.exists")}

\* process_json has returned a failure to the entry point
ProcessingFailed == "success" \in DOMAIN result /\ ~result.success

\* C12: the Notifier is never invoked with a document path that does not exist.
\* Every call of send_email_with_pdf is directly preceded, in the same request,
\* by an existence check of that same path that found the file, and no call is
\* made when the check found nothing or when processing failed or never ran.
C12_NotifierAfterCheck ==
    /\ \A i \in Notifications :
          /\ i - 1 \in Checks
          /\ calls[i - 1].call.path = calls[i].call.pdf_path
          /\ calls[i - 1].found
    /\ \A i \in Checks : ~calls[i].found => i = Len(calls)
    /\ (ProcessingFailed \/ result = Nothing) => Notifications = {}
    /\ Notifications # {} => entry \in EmailEntries

\* the /files/<filename>/email handler has checked the document of a saved
\* payload, found it and called the Notifier with it
C12_Witness ==
    /\ pc = "responded"
    /\ entry = "send_file_email"
    /\ \E i \in Notifications :
          /\ calls[i].call.pdf_path = pdf_path
          /\ calls[i - 1].found
          /\ calls[i].existed
    /\ args.filename.kind = "Webhook"

\* C13: whenever the Notifier is invoked, the response carries the Notifier's
\* result unchanged as emailResult and its top-level success flag is the
\* success flag of that result.
C13_NotifierFlagSurfaced ==
    \A i \in Notifications :
        /\ "result" \in DOMAIN calls[i]
        /\ "emailResult" \in DOMAIN response.body
        /\ response.body.emailResult = calls[i].result
        /\ response.body.success = calls[i].result.success

\* a renderer raised while the request was processed
RendererFailed == \E i \in 1..Len(calls) : "raised" \in DOMAIN calls[i]

\* the failure message of a response body, under either of the keys in use
HasMessage(body) == "message" \in DOMAIN body \/ "error" \in DOMAIN body

\* C14: when the chart or document renderer fails while process_webhook handles
\* a payload, the response has a top-level success flag of false and carries a
\* failure message.
C14_RendererFailureFailsWebhook ==
    (pc = "responded" /\ entry = "process_webhook" /\ RendererFailed)
        => /\ ~response.body.success
           /\ HasMessage(response.body)

\* C15: no entry point lets an exception escape: send_email_with_pdf returns a
\* result with a success flag whenever it is called, process_json returns one,
\* and the body of every response of a controller carries one.
C15_NoExceptionEscapes ==
    /\ \A i \in Notifications :
          "result" \in DOMAIN calls[i] /\ "success" \in DOMAIN calls[i].result
    /\ pc = "done" => "success" \in DOMAIN result
    /\ (pc = "responded" /\ "body" \in DOMAIN response)
          => "success" \in DOMAIN response.body

----------------------------------------------------------------------------
(* Properties of process_json and of the Lookup Table *)

\* C16: process_json aborts only because of a collaborator.  For every text
\* that parses, if neither renderer raised, process_json returns success true
\* with a complete Pillar Score Set, whatever the answer data are.
C16_AbortsOnlyOnCollaborator ==
    (pc = "done" /\ payload.valid /\ ~RendererFailed)
        => /\ result.success
           /\ Scored
           /\ DOMAIN pillar_scores.ret = DOMAIN ZeroScores
           /\ result.data.pillar_scores = pillar_scores.ret

\* C18: the Lookup Table is left unchanged by every operation after
\* construction: no step of calculate, process_json, a webhook, file, report or
\* e-mail entry point adds, removes or modifies an entry of it.
C18_LookupTableUnchanged == [][lookups' = lookups]_vars

\* a second request has been answered after scoring answers one of which is to
\* a question the loaded Lookup Table does not hold
C18_Witness ==
    /\ pc = "responded"
    /\ served = MaxRequests - 1
    /\ Scored
    /\ DOMAIN lookups = AllUuids
    /\ \E u \in DOMAIN answers : u \notin DOMAIN lookups

----------------------------------------------------------------------------
(* Properties of concurrent requests, checked under SpecConc *)

\* C17 (two calls of calculate with identical payloads return identical Pillar
\* Score Sets) has no formula here.  calculate is the operator Calculate of the
\* Lookup Table and the payload, and an operator applied twice to equal
\* arguments agrees with itself in every model: the formula would say nothing
\* of the code.  What the claim rests on is stated where it can fail: the
\* Lookup Table never changes (C18) and a request's scores, once computed, are
\* left alone (C23).

\* the names under which the requests have written an artifact
Written(t) == {threads[t].saved, threads[t].chart, threads[t].report} \ {Nothing}

\* C19: no two artifact writes target the same file.  The payload, the chart
\* and the report of every request are files of their own, named by kind,
\* timestamp and token, and every file has been written once.
C19_WritesNeverCollide ==
    /\ \A p \in DOMAIN files : files[p].writes = 1
    /\ \A t \in DOMAIN threads :
          /\ Written(t) \subseteq DOMAIN files
          /\ threads[t].saved # Nothing => threads[t].saved.kind = "Webhook"
          /\ threads[t].chart # Nothing => threads[t].chart.kind = "chart"
          /\ threads[t].report # Nothing => threads[t].report.kind = "report"
    /\ \A a, b \in DOMAIN threads : a # b => Written(a) \cap Written(b) = {}
    /\ Cardinality(DOMAIN files) =
          Cardinality({<<t, p>> \in (DOMAIN threads) \X (DOMAIN files) : p \in Written(t)})

\* two requests have written their payloads, charts and reports within the
\* same second
C19_Witness ==
    /\ Len(threads) = 2
    /\ threads[1].pc = "done"
    /\ threads[2].pc = "done"
    /\ \A p \in DOMAIN files : p.ts = 0
    /\ Cardinality(DOMAIN files) = 6

\* C20: concurrent requests are independent: the chart saved for a request
\* shows the scores of that request and no others, and so does its report.
C20_ChartHoldsOwnScores ==
    \A t \in DOMAIN threads :
        /\ threads[t].chart # Nothing =>
              files[threads[t].chart].content.plotted = {threads[t].scores.ret}
        /\ threads[t].report # Nothing =>
              /\ files[threads[t].report].content.scores = threads[t].scores.ret
              /\ files[threads[t].report].content.chart.plotted = {threads[t].scores.ret}

----------------------------------------------------------------------------
(* Properties of the file and report entry points, checked under SpecWeb *)

ServeEntries == {"download_pdf", "view_chart"}
StoredPayloadEntries == {"get_file_content", "process_file"}

\* the status of a response: 200 when the entry point returned no status
StatusOf(r) == IF "status" \in DOMAIN r THEN r.status ELSE 200

\* the scorer and the renderers have not been invoked for the request
NothingProcessed(scores, res, log) == scores = Nothing /\ res = Nothing /\ log = << >>

\* C21: a file that is absent at serve time is reported as not found, status
\* 404, and nothing else is: download_pdf and view_chart answer 404 exactly when
\* the path is empty or names no file, get_file_content and process_file answer
\* 404 exactly when the stored payload does not exist, and then without a call
\* of the scorer or of a renderer.
C21_AbsentIsNotFound ==
    [][(pc = "idle" /\ pc' = "responded") =>
          /\ (entry' \in ServeEntries) =>
                /\ (StatusOf(response') = 404)
                      = (args'.path = EmptyPath \/ ~Exists(files, args'.path))
                /\ NothingProcessed(pillar_scores', result', calls')
          /\ (entry' \in StoredPayloadEntries /\ args' # Nothing) =>
                /\ (StatusOf(response') = 404) = (args'.filename \notin JsonFiles(files))
                /\ StatusOf(response') = 404
                      => NothingProcessed(pillar_scores', result', calls')]_vars

\* after a payload was stored and its report written, process_file is asked
\* for a file that is not there and answers 404
C21_Witness ==
    /\ pc = "responded"
    /\ served = MaxRequests - 1
    /\ \E f \in DOMAIN files : f.kind = "report"
    /\ entry = "process_file"
    /\ args # Nothing
    /\ args.filename = MissingFile
    /\ response.status = 404
    /\ NothingProcessed(pillar_scores, result, calls)

----------------------------------------------------------------------------
(* Properties of the display name, checked under Spec *)

\* the scan of _extract_user_name passes the entry without an exception
Scannable(e) == e.t = "dict" /\ ("field" \in DOMAIN e.d => e.d.field.t = "dict")

\* the question identifier of an entry, '' when it has none
RefOf(e) ==
    IF "field" \in DOMAIN e.d /\ "ref" \in DOMAIN e.d.field.d THEN e.d.field.d.ref ELSE ""

\* the positions of the entries that carry the designated name reference
NameEntries(entries) ==
    {i \in 1..Len(entries) : Scannable(entries[i]) /\ RefOf(entries[i]) = "name_field_ref"}

\* C22: _extract_user_name never raises.  It returns the text of the first
\* entry of the answer list whose question identifier is the name reference,
\* and "User" when there is no such entry, when that entry has no text, when
\* the payload holds no answer list, or when an entry before it is malformed.
C22_FirstNameEntryOrUser ==
    Parsed =>
        /\ ~Raised(user_name)
        /\ LET p == payload.value
           IN  IF ~HasAnswerList(p) THEN user_name = DefaultUserName
               ELSE LET entries == AnswerList(p)
                        names == NameEntries(entries)
                    IN  IF names = {} THEN user_name = DefaultUserName
                        ELSE LET h == CHOOSE i \in names : \A j \in names : i <= j
                             IN  IF \E i \in 1..(h - 1) : ~Scannable(entries[i])
                                 THEN user_name = DefaultUserName
                                 ELSE IF "text" \in DOMAIN entries[h].d
                                 THEN user_name = entries[h].d.text
                                 ELSE user_name = DefaultUserName

\* two entries carry the name reference with different texts and the first
\* one's text is the display name
C22_Witness ==
    /\ Parsed
    /\ HasAnswerList(payload.value)
    /\ LET entries == AnswerList(payload.value)
       IN  /\ NameEntries(entries) = {1, 2}
           /\ "text" \in DOMAIN entries[1].d
           /\ "text" \in DOMAIN entries[2].d
           /\ entries[1].d.text # entries[2].d.text
           /\ user_name = entries[1].d.text

----------------------------------------------------------------------------
(* Properties of the pipeline as a whole, checked under SpecWeb *)

Collaborators == {"generate_chart", "generate_pdf_report", "send_email_with_pdf"}

\* the positions of the call log that hold an invocation of `fn`
Invocations(fn) == {i \in 1..Len(calls) : IsCall(calls[i], fn)}

\* the invocation raised, or returned a result whose success flag is false
Failed(c) == "raised" \in DOMAIN c \/ ("result" \in DOMAIN c /\ ~c.result.success)

SinglePass ==
    /\ \A fn \in Collaborators : Cardinality(Invocations(fn)) <= 1
    /\ \A i \in 1..Len(calls) :
          (calls[i].call.fn \in Collaborators /\ Failed(calls[i])) =>
              \A j \in (i + 1)..Len(calls) : calls[j].call.fn \notin Collaborators
    /\ Raised(pillar_scores) => calls = << >>

\* C23: the pipeline is single-pass.  Within one request the Chart Renderer,
\* the Document Renderer and the Notifier are each invoked at most once and
\* none of them after one of them, or the scorer, has failed; the scores of a
\* request, once calculate has returned or raised, are not calculated again.
C23_SinglePassNoRetry ==
    /\ []SinglePass
    /\ [][pillar_scores # Nothing => pillar_scores' \in {pillar_scores, Nothing}]_vars

\* the e-mail webhook has answered after the Chart Renderer returned and the
\* Document Renderer raised: two invocations, no Notifier
C23_Witness ==
    /\ pc = "responded"
    /\ entry = "process_webhook_and_email"
    /\ Len(calls) = 2
    /\ "returned" \in DOMAIN calls[1]
    /\ IsCall(calls[2], "generate_pdf_report")
    /\ "raised" \in DOMAIN calls[2]
    /\ Truthy(args.to_email)

----------------------------------------------------------------------------
(* Properties of the pillars, checked under SpecPillars *)

\* the two Answer Maps hold the same answers to the questions outside pillar k
AgreeOutside(a, b, k) ==
    \A u \in AllUuids \ Range(Pillars[k]) :
        /\ (u \in DOMAIN a) = (u \in DOMAIN b)
        /\ u \in DOMAIN a => a[u] = b[u]

\* the answer lists that differ from `entries` by one entry changed, removed
\* or added
Variants(entries) ==
    {[entries EXCEPT ![i] = e] : i \in 1..Len(entries), e \in PillarEntries}
    \cup {SubSeq(entries, 1, i - 1) \o SubSeq(entries, i + 1, Len(entries)) :
              i \in 1..Len(entries)}
    \cup {Append(entries, e) : e \in PillarEntries}

\* C24: pillars are scored independently.  When the answers of a scored
\* payload are changed in the questions of one pillar only (an answer added,
\* removed or changed), calculate returns a Pillar Score Set again and the
\* scores of the other five pillars are the same.  With only waist
\* circumference resolving to 4.0 and systolic blood pressure to 5.0, pillar 1
\* scores 80.0, pillar 2 scores 100.0 and the other four pillars 0.
C24_PillarsIndependent ==
    (pc = "returned" /\ Scored) =>
        /\ \A es \in Variants(AnswerList(payload.value)) :
              \A k \in 1..6 :
                  AgreeOutside(answers, ExtractAnswers(AnswersPayload(es)), k) =>
                      LET other == Calculate(lookups, AnswersPayload(es))
                      IN  /\ ~Raised(other)
                          /\ \A q \in (1..6) \ {k} :
                                SixScores(other.ret)[q] = SixScores(pillar_scores.ret)[q]
        /\ ( /\ DOMAIN answers = {Pillar1[1], Pillar2[1]}
             /\ Resolve(lookups, answers, Pillar1[1]) = Return(<<40>>)
             /\ Resolve(lookups, answers, Pillar2[1]) = Return(<<50>>) ) =>
               SixScores(pillar_scores.ret) = <<800, 1000, 0, 0, 0, 0>>

----------------------------------------------------------------------------
(* Properties of the empty answer, checked under SpecScorer *)

\* C25: an answer whose extracted value is the empty string, to a question the
\* Lookup Table maps with at least one key and no empty key, is not skipped: it
\* resolves to the sub-score of the first stored key, and for the one question
\* of pillar 5 the pillar scores 20 times that sub-score.
C25_EmptyAnswerTakesFirstKey ==
    \A u \in Looked :
        (answers[u] = EmptyStr /\ lookups[u] # << >> /\ ~ExactKey(lookups[u], << >>)) =>
            /\ Resolve(lookups, answers, u) = Return(<<lookups[u][1].score>>)
            /\ (Scored /\ u = Pillar5[1]) =>
                  pillar_scores.ret.metabolic = 20 * lookups[u][1].score

\* an answer entry without a type to the question of pillar 5 was scored with
\* the sub-score 5.0 of the first of two keys
C25_Witness ==
    /\ pc = "returned"
    /\ Scored
    /\ HasAnswerList(payload.value)
    /\ Len(AnswerList(payload.value)) = 1
    /\ "type" \notin DOMAIN AnswerList(payload.value)[1].d
    /\ answers = [u \in {Pillar5[1]} |-> EmptyStr]
    /\ Len(lookups[Pillar5[1]]) = 2
    /\ lookups[Pillar5[1]][1].score = 50
    /\ lookups[Pillar5[1]][2].score = 0
    /\ pillar_scores.ret.metabolic = 1000

----------------------------------------------------------------------------
(* Properties of the recipient, checked under SpecWeb *)

\* the positions of the entries of type email that carry the designated
\* reference id
EmailEntriesOf(entries) ==
    {i \in 1..Len(entries) :
        /\ Scannable(entries[i])
        /\ TypeOf(entries[i]) = "email"
        /\ RefOf(entries[i]) = EmailRef}

\* the address the payload carries: the email of the first such entry, None
\* when there is none or the answer list cannot be read up to it
PayloadEmail(p) ==
    IF ~HasAnswerList(p) THEN None
    ELSE LET entries == AnswerList(p)
             at == EmailEntriesOf(entries)
         IN  IF at = {} THEN None
             ELSE LET h == CHOOSE i \in at : \A j \in at : i <= j
                  IN  IF \E i \in 1..(h - 1) : entries[i].t # "dict" THEN None
                      ELSE IF "email" \in DOMAIN entries[h].d THEN entries[h].d.email
                      ELSE None

\* process_webhook_and_email has answered a request it could save
WebhookEmailAnswered ==
    pc = "responded" /\ entry = "process_webhook_and_email" /\ args # Nothing

\* C26: in process_webhook_and_email the recipient is the address supplied
\* with the request when there is one, otherwise the email answer of the
\* payload with the designated reference id.  When processing succeeded and
\* neither gives an address the response is a failure with status 400 and the
\* Notifier is not invoked; when processing failed the response is a failure
\* with status 500, with or without a recipient.
C26_WebhookRecipient ==
    WebhookEmailAnswered =>
        LET given == args.to_email
            carried == PayloadEmail(payload.value)
        IN  /\ \A i \in Notifications :
                  calls[i].call.to_email = IF Truthy(given) THEN given ELSE carried
            /\ HasData(result) =>
                  (StatusOf(response) = 400) = (~Truthy(given) /\ ~Truthy(carried))
            /\ StatusOf(response) = 400 =>
                  ~response.body.success /\ Notifications = {}
            /\ ProcessingFailed =>
                  StatusOf(response) = 500 /\ ~response.body.success

\* an address was supplied with a payload that carries another one, and the
\* Notifier was called with the supplied one
C26_Witness ==
    /\ WebhookEmailAnswered
    /\ Truthy(args.to_email)
    /\ Truthy(PayloadEmail(payload.value))
    /\ PayloadEmail(payload.value) # args.to_email
    /\ \E i \in Notifications : calls[i].call.to_email = args.to_email

\* the /files/<filename>/email handler is serving, or has served, a request
InFileEmail == pc \notin {"idle", "failed"} /\ entry = "send_file_email"

\* the JSON value the named file holds, Nothing when the file is missing or
\* is not JSON
StoredValue(filename) ==
    IF filename \in DOMAIN files /\ files[filename].content.text.valid
    THEN files[filename].content.text.value
    ELSE Nothing

\* a stored value the scan of lines 106-110 goes through: a mapping holds a
\* mapping under 'form_response', and that a list of mappings under 'answers',
\* when they hold these keys at all
Readable(p) ==
    (p.t = "dict" /\ "form_response" \in DOMAIN p.d) =>
        /\ p.d.form_response.t = "dict"
        /\ "answers" \in DOMAIN p.d.form_response.d =>
              /\ p.d.form_response.d.answers.t = "list"
              /\ \A i \in 1..Len(AnswerList(p)) : Scannable(AnswerList(p)[i])

\* the storage failed under the request: the read of get_file_content or that
\* of process_file
ReadFailed(at) == "fault" \in DOMAIN args /\ args.fault = at

\* C27: in the /files/<filename>/email handler the recipient is the email
\* answer stored in the file when there is one and the query parameter only
\* otherwise, and it is resolved before any processing: processing runs only
\* with a recipient, and when the file is read and neither it nor the query
\* gives an address the response is a failure with status 400 and neither the
\* scorer, a renderer nor the Notifier has been invoked.  A file the handler
\* could not read is answered with 404 before a recipient is looked for, and
\* nothing is processed then either; a file process_file could not read ends
\* the request with 500, the recipient resolved and nothing processed.
C27_FileRecipientFirst ==
    (InFileEmail /\ StoredValue(args.filename) # Nothing) =>
        LET carried == PayloadEmail(StoredValue(args.filename))
            recipient == IF Truthy(carried) THEN carried ELSE args.email
        IN  /\ \A i \in Notifications : calls[i].call.to_email = recipient
            /\ ~NothingProcessed(pillar_scores, result, calls) =>
                  Truthy(recipient) /\ args.to_email = recipient
            /\ ( /\ Readable(StoredValue(args.filename))
                 /\ ~Truthy(recipient)
                 /\ ~ReadFailed("get_file_content") ) =>
                  /\ pc = "responded"
                  /\ StatusOf(response) = 400
                  /\ ~response.body.success
            /\ (pc = "responded" /\ StatusOf(response) = 400) =>
                  NothingProcessed(pillar_scores, result, calls) /\ ~Truthy(recipient)
            /\ ReadFailed("get_file_content") =>
                  /\ pc = "responded"
                  /\ StatusOf(response) = 404
                  /\ NothingProcessed(pillar_scores, result, calls)
            /\ ReadFailed("process_file") =>
                  /\ pc = "responded"
                  /\ StatusOf(response) = 500
                  /\ Truthy(recipient) /\ args.to_email = recipient
                  /\ NothingProcessed(pillar_scores, result, calls)

\* the query parameter was given for a file that holds another address, and
\* the Notifier was called with the address of the file
C27_Witness ==
    /\ InFileEmail
    /\ pc = "responded"
    /\ StoredValue(args.filename) # Nothing
    /\ Truthy(args.email)
    /\ Truthy(PayloadEmail(StoredValue(args.filename)))
    /\ PayloadEmail(StoredValue(args.filename)) # args.email
    /\ \E i \in Notifications :
          calls[i].call.to_email = PayloadEmail(StoredValue(args.filename))

----------------------------------------------------------------------------
(* Properties of the stored payload, checked under SpecWeb *)

WebhookEntries == {"process_webhook", "process_webhook_to_pdf", "process_webhook_and_email"}

\* a webhook entry point is serving, or has served, a request
InWebhook == pc \notin {"idle", "failed"} /\ entry \in WebhookEntries

\* the payload of the request is in the store under the name the request gave it
PayloadStored ==
    /\ args # Nothing
    /\ args.fileName.kind = "Webhook"
    /\ args.fileName \in DOMAIN files
    /\ files[args.fileName].content = [text |-> payload]

\* the stored payloads stay as they are
PayloadsKept ==
    \A f \in DOMAIN files :
        f.kind = "Webhook" => f \in DOMAIN files' /\ files'[f] = files[f]

\* C28: in the three webhook entry points the raw payload is written to
\* storage before process_json is invoked: whenever process_json has been
\* handed the payload, the file holding it is in the store.  If the write
\* fails, process_json is not invoked and the response is a failure with status
\* 500.  A stored payload is left in place by every later step, whatever the
\* outcome.
C28_PayloadStoredFirst ==
    /\ [](InWebhook =>
            IF payload # Nothing \/ args # Nothing
            THEN PayloadStored
            ELSE /\ NothingProcessed(pillar_scores, result, calls)
                 /\ StatusOf(response) = 500
                 /\ ~response.body.success)
    /\ [][PayloadsKept]_vars

\* the e-mail webhook has answered 400 for want of a recipient and the
\* payload it stored is in place
C28_Witness ==
    /\ InWebhook
    /\ pc = "responded"
    /\ PayloadStored
    /\ HasData(result)
    /\ StatusOf(response) = 400

----------------------------------------------------------------------------
(* Properties of repeated answers, checked under Spec *)

\* the identifiers of the entries of an answer list
RefsOf(entries) == {RefOf(entries[i]) : i \in 1..Len(entries)}

\* the position of the last entry with the identifier r
LastOf(entries, r) ==
    CHOOSE i \in 1..Len(entries) :
        /\ RefOf(entries[i]) = r
        /\ \A j \in (i + 1)..Len(entries) : RefOf(entries[j]) # r

\* the value of the last entry of each identifier
LastValues(entries) ==
    [r \in RefsOf(entries) |-> AnswerValue(entries[LastOf(entries, r)]).ret]

\* the answer list of the payload holds entries the extractor can read
Extractable(p) ==
    /\ HasAnswerList(p)
    /\ \A i \in 1..Len(AnswerList(p)) : ~MalformedEntry(AnswerList(p)[i])

\* C29: when the extractor can read the answer list, the Answer Map has
\* exactly one entry per distinct question identifier of the list, entries
\* without an identifier sharing the key '', and holds for each the value of
\* the last entry with that identifier; the scores are those of that map, so
\* of the last values alone.
C29_LastAnswerWins ==
    (Parsed /\ Extractable(payload.value)) =>
        LET entries == AnswerList(payload.value)
        IN  /\ DOMAIN answers = RefsOf(entries)
            /\ answers = LastValues(entries)
            /\ pillar_scores = Normalized(RawScores(lookups, LastValues(entries), 1))

\* waist circumference is answered twice, first by a text worth 4.0, then by
\* one the table does not hold: the map holds the second and pillar 1 scores 0
C29_Witness ==
    /\ pc = "scored"
    /\ Extractable(payload.value)
    /\ Pillar1[1] \in DOMAIN lookups
    /\ LET entries == AnswerList(payload.value)
       IN  /\ Len(entries) = 2
           /\ RefsOf(entries) = {Pillar1[1]}
           /\ AnswerValue(entries[1]) = Return(Str(<<"a">>))
           /\ AnswerValue(entries[2]) = Return(Str(<<"c">>))
    /\ answers = [u \in {Pillar1[1]} |-> Str(<<"c">>)]
    /\ pillar_scores.ret.muscles_and_visceral_fat = 0

----------------------------------------------------------------------------
(* Properties of process_webhook_to_pdf, checked under SpecWeb *)

\* process_json has returned a success to the entry point
ProcessingSucceeded == "success" \in DOMAIN result /\ result.success

\* the response is a failure with status 500 that names no document
FailsWithoutDocument(r) ==
    /\ StatusOf(r) = 500
    /\ ~r.body.success
    /\ "pdf_path" \notin DOMAIN r.body

\* C30: process_webhook_to_pdf returns a success with a document path if and
\* only if process_json succeeded and the document it reports is on disk when
\* the entry point returns, and the path is that document's; in every other
\* case, a failed write of the payload included, it returns a failure with
\* status 500 and no document path.
C30_PdfSuccessIffDocument ==
    [][/\ (pc = "done" /\ entry = "process_webhook_to_pdf" /\ pc' = "responded") =>
             IF ProcessingSucceeded /\ Exists(files, pdf_path)
             THEN /\ StatusOf(response') = 200
                  /\ response'.body.success
                  /\ "pdf_path" \in DOMAIN response'.body
                  /\ response'.body.pdf_path = pdf_path
                  /\ Exists(files', response'.body.pdf_path)
             ELSE FailsWithoutDocument(response')
       /\ (pc = "idle" /\ pc' = "responded" /\ entry' = "process_webhook_to_pdf") =>
             FailsWithoutDocument(response')]_vars

\* process_json succeeded, the report was removed before the entry point
\* looked for it, and the response is the failure
C30_Witness ==
    /\ pc = "responded"
    /\ entry = "process_webhook_to_pdf"
    /\ ProcessingSucceeded
    /\ ~Exists(files, pdf_path)
    /\ FailsWithoutDocument(response)

====
